---- MODULE Spec2Model ----
(***************************************************************************)
(* Guest check-in application: the Google-Sheets backed operations         *)
(* (registerUser, authenticateUser, updateUserProfile, checkInUser) behind *)
(* their API routes, over the Users and Visits sheets.                     *)
(*                                                                         *)
(* Strings are sequences of one-character strings, so that toLowerCase,    *)
(* trim and the sanitizer's replacements are computed character by         *)
(* character.  Time is Date.now() in milliseconds.  Every await on a       *)
(* sheet read or write is a point where another request may run.           *)
(***************************************************************************)
EXTENDS Integers, Sequences, FiniteSets, TLC

(***************************************************************************)
(* Strings                                                                 *)
(***************************************************************************)
UpperAlpha == <<"A","B","C","D","E","F","G","H","I","J","K","L","M",
                "N","O","P","Q","R","S","T","U","V","W","X","Y","Z">>

LowerAlpha == <<"a","b","c","d","e","f","g","h","i","j","k","l","m",
                "n","o","p","q","r","s","t","u","v","w","x","y","z">>

DigitChars == {"0","1","2","3","4","5","6","7","8","9"}

\* \w of a JavaScript regular expression: [A-Za-z0-9_]
WordChars == {UpperAlpha[i] : i \in 1..26} \cup {LowerAlpha[i] : i \in 1..26}
             \cup DigitChars \cup {"_"}

\* String.prototype.toLowerCase on one character
LowerChar(c) ==
    IF \E i \in 1..26 : UpperAlpha[i] = c
    THEN LowerAlpha[CHOOSE i \in 1..26 : UpperAlpha[i] = c]
    ELSE c

toLowerCase(s) == [i \in 1..Len(s) |-> LowerChar(s[i])]

\* n copies of the character c
Rep(c, n) == [i \in 1..n |-> c]

\* String.prototype.trim: drop the leading and the trailing whitespace
trim(s) ==
    IF \A i \in 1..Len(s) : s[i] = " " THEN <<>>
    ELSE LET first == CHOOSE i \in 1..Len(s) :
                          s[i] # " " /\ \A j \in 1..(i - 1) : s[j] = " "
             last  == CHOOSE i \in 1..Len(s) :
                          s[i] # " " /\ \A j \in (i + 1)..Len(s) : s[j] = " "
         IN  SubSeq(s, first, last)

NotAngle(c) == c \notin {"<", ">"}

\* .replace(/[<>]/g, '')
StripAngles(s) == SelectSeq(s, NotAngle)

\* the mark of a deleted position; it is no character
Deleted == ""

NotDeleted(c) == c # Deleted

\* s without the positions i..(i + lenAt[i] - 1) of every i in starts
DeleteMatches(s, starts, lenAt) ==
    LET marked == [i \in 1..Len(s) |->
                     IF \E m \in starts : m <= i /\ i < m + lenAt[m]
                     THEN Deleted ELSE s[i]]
    IN  SelectSeq(marked, NotDeleted)

JsPattern == <<"j","a","v","a","s","c","r","i","p","t",":">>

\* does /javascript:/i match s at position i
JsMatchesAt(s, i) ==
    /\ i + Len(JsPattern) - 1 <= Len(s)
    /\ \A k \in 1..Len(JsPattern) : LowerChar(s[i + k - 1]) = JsPattern[k]

\* .replace(/javascript:/gi, ''): two matches never overlap (":" ends the
\* pattern and occurs nowhere else in it), so every match is deleted
StripJavascript(s) ==
    LET starts == {i \in 1..Len(s) : JsMatchesAt(s, i)}
        lenAt == [m \in starts |-> Len(JsPattern)]
    IN  DeleteMatches(s, starts, lenAt)

\* first position at or after i that holds no \w character (Len(s)+1 if none)
WordRunEnd(s, i) ==
    IF \A j \in i..Len(s) : s[j] \in WordChars THEN Len(s) + 1
    ELSE CHOOSE j \in i..Len(s) :
             s[j] \notin WordChars /\ \A k \in i..(j - 1) : s[k] \in WordChars

\* length of the match of /on\w+=/i at position i, 0 when there is none
HandlerMatchLen(s, i) ==
    IF /\ i + 1 <= Len(s)
       /\ LowerChar(s[i]) = "o"
       /\ LowerChar(s[i + 1]) = "n"
    THEN LET e == WordRunEnd(s, i + 2)
         IN  IF e > i + 2 /\ e <= Len(s) /\ s[e] = "=" THEN e - i + 1 ELSE 0
    ELSE 0

\* .replace(/on\w+=/gi, ''): a match that starts inside another one ends at
\* the same "=", so the leftmost matches cover exactly what any match covers
StripHandlers(s) ==
    LET starts == {i \in 1..Len(s) : HandlerMatchLen(s, i) > 0}
        lenAt == [m \in starts |-> HandlerMatchLen(s, m)]
    IN  DeleteMatches(s, starts, lenAt)

\* sanitizeInput: trim, then the three replacements, in this order
sanitizeInput(input) == StripHandlers(StripJavascript(StripAngles(trim(input))))


RECURSIVE join(_, _)
\* Array.prototype.join(sep) of a list of strings
join(list, sep) ==
    IF Len(list) = 0 THEN <<>>
    ELSE IF Len(list) = 1 THEN list[1]
    ELSE list[1] \o sep \o join(Tail(list), sep)

\* String.prototype.split(',') of a string: the pieces between the commas
split(s) ==
    LET commas == {i \in 1..Len(s) : s[i] = ","}
        \* position of the k-th comma; 0 before the first, Len(s)+1 after the last
        comma(k) == IF k = 0 THEN 0
                    ELSE IF k > Cardinality(commas) THEN Len(s) + 1
                    ELSE CHOOSE i \in commas :
                             Cardinality({j \in commas : j < i}) = k - 1
    IN  [k \in 1..(Cardinality(commas) + 1) |->
            SubSeq(s, comma(k - 1) + 1, comma(k) - 1)]

(***************************************************************************)
(* Time: Date.now() in milliseconds; an ISO string carries the UTC date    *)
(* and the time of day.                                                    *)
(***************************************************************************)
DayMs == 24 * 60 * 60 * 1000

\* Date.prototype.toISOString
toISOString(t) == [date |-> t \div DayMs, time |-> t % DayMs]

\* new Date(iso).getTime()
getTime(iso) == iso.date * DayMs + iso.time

\* the duplicate check-in window of checkInUser: 60 * 1000
WindowMs == 60 * 1000

(***************************************************************************)
(* Disciplines                                                             *)
(***************************************************************************)
Software == <<"S","o","f","t","w","a","r","e">>
Art      == <<"A","r","t">>
Hardware == <<"H","a","r","d","w","a","r","e">>
Design   == <<"D","e","s","i","g","n">>
Fashion  == <<"F","a","s","h","i","o","n">>
AIML     == <<"A","I","/","M","L">>
Other    == <<"O","t","h","e","r">>
PhotoVideo == <<"P","h","o","t","o","g","r","a","p","h","e","r","/",
                "V","i","d","e","o","g","r","a","p","h","e","r">>

\* type Discipline: the fixed eight-item enumeration
Disciplines ==
    {Software, Art, Hardware, Design, Fashion, AIML, Other, PhotoVideo}

\* a value the validator of the database variant accepts and the type does not
Creative == <<"C","r","e","a","t","i","v","e">>

(***************************************************************************)
(* Bounds of the model                                                     *)
(***************************************************************************)
\* rows the Users sheet may hold
MaxUsers == 2

\* rows the Visits sheet may hold
MaxVisits == 2

\* clock advances in one behaviour
MaxTicks == 2

\* concurrent request handlers
Procs == {1, 2}

\* the clock advances by a millisecond or by one millisecond less than the
\* window, so that ages of 59999, 60000 and 60001 ms all occur
TickSteps == {1, WindowMs - 1}

TicksOf(t) == (t \div (WindowMs - 1)) + (t % (WindowMs - 1))

(***************************************************************************)
(* Request bodies                                                          *)
(***************************************************************************)
EmailUpper  == <<"A","@","x">>
EmailPadded == <<" ","A","@","x">>
EmailAngle  == <<"<"," ","a","@","x">>
EmailOther  == <<"b","@","x">>

Pin1234  == <<"1","2","3","4">>
Pin9999  == <<"9","9","9","9">>
Pin5678  == <<"5","6","7","8">>
PinShort == <<"1","2">>
PinAlpha == <<"1","2","a","4">>

NameAl == <<"A","l">>
NameBo == <<"B","o">>
WorkHQ == <<"H","Q">>

\* bodies of POST /api/register
RegisterBodies ==
    { [email |-> EmailUpper,  name |-> NameAl, workplace |-> WorkHQ,
       pin |-> Pin1234,  disciplines |-> <<Software>>],
      [email |-> EmailPadded, name |-> NameAl, workplace |-> WorkHQ,
       pin |-> Pin9999,  disciplines |-> <<Software, Art>>],
      [email |-> EmailAngle,  name |-> NameAl, workplace |-> WorkHQ,
       pin |-> Pin1234,  disciplines |-> <<Design>>],
      [email |-> EmailOther,  name |-> NameAl, workplace |-> WorkHQ,
       pin |-> Pin1234,  disciplines |-> <<Creative>>],
      [email |-> EmailOther,  name |-> NameAl, workplace |-> WorkHQ,
       pin |-> PinShort, disciplines |-> <<Software>>],
      [email |-> EmailOther,  name |-> NameAl, workplace |-> WorkHQ,
       pin |-> PinAlpha, disciplines |-> <<Software>>],
      [email |-> EmailOther,  name |-> NameAl, workplace |-> WorkHQ,
       pin |-> Pin1234,  disciplines |-> <<>>] }

\* the two bodies of RegisterBodies whose emails normalize to the same address
SameEmailBodies ==
    {body \in RegisterBodies : body.email \in {EmailUpper, EmailPadded}}

\* the two valid bodies of RegisterBodies whose emails are stored differently
TwoUserBodies ==
    {body \in RegisterBodies : body.email \in {EmailUpper, EmailAngle}}

\* bodies of POST /api/login
LoginBodies ==
    [email : {EmailUpper, EmailPadded, EmailOther}, pin : {Pin1234, Pin9999, PinShort}]

\* an id no row holds
NoSuchId == 0

ReasonMin    == Rep("x", 10)
ReasonShort  == Rep("x", 9)
ReasonLong   == Rep("x", 501)
ReasonPadded == <<"h","i">> \o Rep(" ", 8)

Reasons ==
    {ReasonMin, ReasonPadded, ReasonShort, ReasonLong, <<>>}

\* bodies of POST /api/checkin for the given user ids
CheckInBodies(ids) == [userId : ids, reason : Reasons]

\* the check-in bodies of the overlapping requests
RacingCheckInBodies(ids) == [userId : ids, reason : {ReasonMin, ReasonShort}]

\* bodies of POST /api/profile/update for the given user ids
UpdateBodies(ids) ==
    [userId : ids, name : {NameBo}, workplace : {WorkHQ},
     disciplines : {<<Hardware>>}, pin : {Pin5678, PinShort, <<>>}]

\* the profile update bodies of the overlapping requests
RacingUpdateBodies(ids) == {body \in UpdateBodies(ids) : body.pin = Pin5678}

\* filters.startDate or filters.endDate left out
NoDate == 0 - 1

\* the filters of the admin's export requests
ExportFilters ==
    [startDate : {NoDate, 1}, endDate : {NoDate, 0},
     discipline : {<<>>, Art}, searchTerm : {<<>>, <<"B","O">>}]

(***************************************************************************)
(* State                                                                   *)
(***************************************************************************)
VARIABLES
    users,   \* the rows of the Users sheet below the header
    visits,  \* the rows of the Visits sheet below the header
    now,     \* Date.now()
    pc,      \* where each request handler is suspended
    loc,     \* the locals of each suspended handler
    resp,    \* the last response sent
    form,    \* the state and the refs of the CheckInForm component in a browser
    client   \* the module state of lib/sheets/client.ts, and the results of its calls

vars == <<users, visits, now, pc, loc, resp, form, client>>

NoUser == [id |-> NoSuchId, email |-> <<>>, name |-> <<>>, disciplines |-> <<>>]

NoLoc == [op |-> "none"]

Response(op, status, error, user) ==
    [op |-> op, status |-> status, error |-> error, user |-> user]

\* the delay of the debounce timer of the email field
DebounceMs == 500

\* the delay of the timer that resets the count of lookups
LookupResetMs == 60000

\* the count of lookups at which performEmailLookup stops looking up
LookupLimit == 10

\* null, for a user, a visit or a timer
Null == [id |-> NoSuchId]

\* the timer that calls performEmailLookup(value) at the time at
DebounceTimer(value, at) == [value |-> value, at |-> at]

\* CheckInForm once mounted at time 0: the initial state, the refs, and the
\* debounce timer that the effect of the first render has set; emailSince is
\* the time of the last setEmail, inFlight are the lookups awaited, issued
\* the lookups sent so far
MountedForm ==
    [email               |-> <<>>,
     emailSince          |-> 0,
     name                |-> <<>>,
     selectedDisciplines |-> <<>>,
     isLookingUp         |-> FALSE,
     isReturningUser     |-> FALSE,
     returningUser       |-> Null,
     lastVisit           |-> Null,
     timers              |-> {DebounceTimer(<<>>, DebounceMs)},
     lookupTimerRef      |-> DebounceTimer(<<>>, DebounceMs),
     lookupCountRef      |-> 0,
     lookupResetTimerRef |-> Null,
     inFlight            |-> {},
     issued              |-> <<>>]

\* the value undefined, which no environment variable holds
Undefined == "undefined"

ServiceAccountKey == "GOOGLE_SERVICE_ACCOUNT_KEY"

SpreadsheetIdKey == "GOOGLE_SPREADSHEET_ID"

\* process.env with both variables set
FullEnv ==
    [name \in {ServiceAccountKey, SpreadsheetIdKey} |->
        IF name = ServiceAccountKey THEN "{client_email, private_key}" ELSE "sheet-1"]

\* process.env[name]
EnvOf(env, name) == IF name \in DOMAIN env THEN env[name] ELSE Undefined

\* lib/sheets/client.ts once loaded under the environment env: sheetsClient
\* and auth are null; jwts counts the JWT clients created, awaiting are the
\* calls suspended at authorize, results are the results of the calls that
\* ended, initialized tells that a call has returned a client it created
LoadedClient(env) ==
    [env          |-> env,
     sheetsClient |-> Null,
     auth         |-> Null,
     jwts         |-> 0,
     awaiting     |-> {},
     results      |-> <<>>,
     initialized  |-> FALSE]

\* the ids of the rows of the Users sheet, and one that matches none
UserIds == {users[i].id : i \in 1..Len(users)} \cup {NoSuchId}

Init ==
    /\ users = <<>>
    /\ visits = <<>>
    /\ now = 0
    /\ pc = [p \in Procs |-> "idle"]
    /\ loc = [p \in Procs |-> NoLoc]
    /\ resp = Response("none", 0, "", NoUser)
    /\ form = MountedForm
    /\ client = LoadedClient(FullEnv)

\* time passes
Tick ==
    /\ UNCHANGED <<form, client>>
    /\ \E d \in TickSteps :
          /\ TicksOf(now + d) <= MaxTicks
          /\ now' = now + d
    /\ UNCHANGED <<users, visits, pc, loc, resp>>

\* the handler of p returns a response and nothing else changes
Respond(p, op, status, error, user) ==
    /\ resp' = Response(op, status, error, user)
    /\ pc' = [pc EXCEPT ![p] = "idle"]
    /\ loc' = [loc EXCEPT ![p] = NoLoc]

(***************************************************************************)
(* Sheet rows                                                              *)
(***************************************************************************)
\* parseUserRow: the columns of a Users row as a User
parseUserRow(row) ==
    [id          |-> row.id,
     email       |-> row.email,
     name        |-> row.name,
     workplace   |-> row.workplace,
     disciplines |-> IF row.disciplines # <<>> THEN split(row.disciplines) ELSE <<>>,
     created_at  |-> row.created_at,
     updated_at  |-> row.updated_at,
     pin         |-> row.pin]

\* Array.prototype.findIndex, given the indices of the rows that satisfy the
\* callback: the first of them, 0 if there is none
FindIndex(satisfying) ==
    IF satisfying = {} THEN 0
    ELSE CHOOSE i \in satisfying : \A j \in satisfying : i <= j

\* /^\d{4}$/.test(pin) together with pin.length !== 4
PinValid(pin) == Len(pin) = 4 /\ \A i \in 1..Len(pin) : pin[i] \in DigitChars

(***************************************************************************)
(* POST /api/register and registerUser                                     *)
(***************************************************************************)
\* the route's validation: the error it answers with, "" when the body passes
RegisterError(body) ==
    IF \/ body.email = <<>> \/ body.name = <<>> \/ body.workplace = <<>>
       \/ body.pin = <<>> \/ Len(body.disciplines) = 0
    THEN "All fields are required"
    ELSE IF ~PinValid(body.pin) THEN "PIN must be exactly 4 digits"
    ELSE ""

\* userRows.some(row => row[1] === sanitizedEmail)
emailExists(userRows, sanitizedEmail) ==
    \E i \in 1..Len(userRows) : userRows[i].email = sanitizedEmail

\* newUserRow of registerUser, for the uuid and the time it draws
newUserRow(data, userId, t) ==
    [id          |-> userId,
     email       |-> sanitizeInput(toLowerCase(data.email)),
     name        |-> sanitizeInput(data.name),
     workplace   |-> sanitizeInput(data.workplace),
     disciplines |-> join(data.disciplines, <<",">>),
     created_at  |-> toISOString(t),
     updated_at  |-> toISOString(t),
     pin         |-> data.pin]

\* appends the handlers have decided on and not yet sent
PendingAppends(at) == Cardinality({q \in Procs : pc[q] = at})

\* uuidv4(): a fresh id for a row of a sheet, the number of ids drawn for that
\* sheet so far plus one (every id drawn is in a row or in a pending append)
uuidv4(rows, at) == Len(rows) + PendingAppends(at) + 1

\* the route validates, registerUser reads the Users sheet, checks the email
\* and builds the row; it is suspended at the append
RegisterPOST(p, body) ==
    /\ UNCHANGED <<form, client>>
    /\ pc[p] = "idle"
    /\ UNCHANGED <<users, visits, now>>
    /\ IF RegisterError(body) # ""
       THEN Respond(p, "register", 400, RegisterError(body), NoUser)
       ELSE IF emailExists(users, sanitizeInput(toLowerCase(body.email)))
       THEN Respond(p, "register", 400, "Email already registered", NoUser)
       ELSE /\ Len(users) + PendingAppends("reg_append") < MaxUsers
            /\ pc' = [pc EXCEPT ![p] = "reg_append"]
            /\ loc' = [loc EXCEPT ![p] =
                         [op |-> "register", req |-> body,
                          row |-> newUserRow(body, uuidv4(users, "reg_append"), now)]]
            /\ UNCHANGED resp

\* appendToSheet(SHEETS.USERS, newUserRow) completes
RegisterAppend(p) ==
    /\ UNCHANGED <<form, client>>
    /\ pc[p] = "reg_append"
    /\ users' = Append(users, loc[p].row)
    /\ Respond(p, "register", 200, "", [NoUser EXCEPT !.id = loc[p].row.id])
    /\ UNCHANGED <<visits, now>>

(***************************************************************************)
(* POST /api/login and authenticateUser                                    *)
(***************************************************************************)
LoginError(body) ==
    IF body.email = <<>> \/ body.pin = <<>> THEN "Email and PIN are required"
    ELSE IF ~PinValid(body.pin) THEN "PIN must be exactly 4 digits"
    ELSE ""

\* authenticateUser without the comparison of the PIN
authenticateUserAnyPin(userRows, email, pin) ==
    LET sanitizedEmail == sanitizeInput(toLowerCase(email))
        userRowIndex == FindIndex({i \in 1..Len(userRows) :
                                       userRows[i].email = sanitizedEmail})
    IN  IF userRowIndex = 0
        THEN [success |-> FALSE, user |-> NoUser,
              error |-> "Account not found. Please register first."]
        ELSE LET user == parseUserRow(userRows[userRowIndex])
             IN  IF user.pin = <<>>
                 THEN [success |-> FALSE, user |-> NoUser,
                       error |-> "Account exists but has no PIN. Please contact support."]
                 ELSE [success |-> TRUE, error |-> "", user |-> user]

\* authenticateUser over the rows it read
authenticateUser(userRows, email, pin) ==
    LET sanitizedEmail == sanitizeInput(toLowerCase(email))
        userRowIndex == FindIndex({i \in 1..Len(userRows) :
                                       userRows[i].email = sanitizedEmail})
    IN  IF userRowIndex = 0
        THEN [success |-> FALSE, user |-> NoUser,
              error |-> "Account not found. Please register first."]
        ELSE LET user == parseUserRow(userRows[userRowIndex])
             IN  IF user.pin = <<>>
                 THEN [success |-> FALSE, user |-> NoUser,
                       error |-> "Account exists but has no PIN. Please contact support."]
                 ELSE IF pin # user.pin
                 THEN [success |-> FALSE, user |-> NoUser,
                       error |-> "Incorrect PIN. Please try again."]
                 ELSE [success |-> TRUE, error |-> "", user |-> user]

\* LoginPOST that answers with the user as authenticateUser returns it
LoginPOSTWholeUser(p, body) ==
    /\ UNCHANGED <<form, client>>
    /\ pc[p] = "idle"
    /\ UNCHANGED <<users, visits, now>>
    /\ IF LoginError(body) # ""
       THEN Respond(p, "login", 400, LoginError(body), NoUser)
       ELSE LET result == authenticateUser(users, body.email, body.pin)
            IN  IF ~result.success
                THEN Respond(p, "login", 401, result.error, NoUser)
                ELSE Respond(p, "login", 200, "", result.user)

\* the login route: one read of the Users sheet, no write; the response
\* carries four fields of the user that authenticateUser returns
LoginPOST(p, body) ==
    /\ UNCHANGED <<form, client>>
    /\ pc[p] = "idle"
    /\ UNCHANGED <<users, visits, now>>
    /\ IF LoginError(body) # ""
       THEN Respond(p, "login", 400, LoginError(body), NoUser)
       ELSE LET result == authenticateUser(users, body.email, body.pin)
            IN  IF ~result.success
                THEN Respond(p, "login", 401, result.error, NoUser)
                ELSE Respond(p, "login", 200, "",
                             [id          |-> result.user.id,
                              email       |-> result.user.email,
                              name        |-> result.user.name,
                              disciplines |-> result.user.disciplines])

(***************************************************************************)
(* POST /api/lookup-by-pin                                                 *)
(***************************************************************************)
\* getUserByPin of lib/database: the user whose credential is the PIN, NoUser
\* (null) when there is none
getUserByPin(userRows, pin) ==
    LET userRowIndex == FindIndex({i \in 1..Len(userRows) : userRows[i].pin = pin})
    IN  IF userRowIndex = 0 THEN NoUser ELSE parseUserRow(userRows[userRowIndex])

\* the lookup route: the body of each of its three responses
LookupByPinPOST(p, body) ==
    /\ UNCHANGED <<form, client>>
    /\ pc[p] = "idle"
    /\ UNCHANGED <<users, visits, now, pc, loc>>
    /\ IF Len(body.pin) # 4
       THEN resp' = [op |-> "lookup", status |-> 400, error |-> "Invalid PIN format"]
       ELSE LET user == getUserByPin(users, body.pin)
            IN  IF user # NoUser
                THEN resp' = [op |-> "lookup", status |-> 200, error |-> "",
                              exists |-> TRUE,
                              user |-> [name        |-> user.name,
                                        email       |-> user.email,
                                        disciplines |-> user.disciplines]]
                ELSE resp' = [op |-> "lookup", status |-> 200, error |-> "",
                              exists |-> FALSE]

(***************************************************************************)
(* POST /api/profile/update (two routes) and updateUserProfile             *)
(***************************************************************************)
\* validation of the route that requires a PIN
UpdateError(body) ==
    IF \/ body.name = <<>> \/ body.workplace = <<>>
       \/ Len(body.disciplines) = 0 \/ body.pin = <<>>
    THEN "All fields are required"
    ELSE IF ~PinValid(body.pin) THEN "PIN must be exactly 4 digits"
    ELSE ""

\* validation of the route that takes no PIN
UpdateNoPinError(body) ==
    IF body.name = <<>> \/ body.workplace = <<>> \/ Len(body.disciplines) = 0
    THEN "All fields are required"
    ELSE ""

\* updatedRow of updateUserProfile for the user it read
updatedRow(user, data, t) ==
    [id          |-> user.id,
     email       |-> user.email,
     name        |-> sanitizeInput(data.name),
     workplace   |-> sanitizeInput(data.workplace),
     disciplines |-> join(data.disciplines, <<",">>),
     created_at  |-> user.created_at,
     updated_at  |-> toISOString(t),
     pin         |-> data.pin]

\* updateUserProfile up to its await on updateRow; pinGiven is false when the
\* caller passes no pin, and data.pin is then undefined
UpdateRead(p, body, pinGiven) ==
    LET userRowIndex == FindIndex({i \in 1..Len(users) : users[i].id = body.userId})
    IN  IF userRowIndex = 0
        THEN /\ Respond(p, "update", 400, "User not found", NoUser)
        ELSE /\ pc' = [pc EXCEPT ![p] = "upd_write"]
             /\ loc' = [loc EXCEPT ![p] =
                          [op |-> "update", req |-> body, index |-> userRowIndex,
                           userRows |-> users,
                           pinGiven |-> pinGiven,
                           row |-> updatedRow(parseUserRow(users[userRowIndex]),
                                              body, now)]]
             /\ UNCHANGED resp

ProfileUpdatePOST(p, body) ==
    /\ UNCHANGED <<form, client>>
    /\ pc[p] = "idle"
    /\ UNCHANGED <<users, visits, now>>
    /\ IF UpdateError(body) # ""
       THEN Respond(p, "update", 400, UpdateError(body), NoUser)
       ELSE UpdateRead(p, body, TRUE)

ProfileUpdateNoPinPOST(p, body) ==
    /\ UNCHANGED <<form, client>>
    /\ pc[p] = "idle"
    /\ UNCHANGED <<users, visits, now>>
    /\ IF UpdateNoPinError(body) # ""
       THEN Respond(p, "update", 400, UpdateNoPinError(body), NoUser)
       ELSE UpdateRead(p, body, FALSE)

\* the values a cell can hold after an undefined value was written to it:
\* the sheet keeps the cell, or empties it
UndefinedWritten(old) == {old, <<>>}

\* ProfileUpdateWrite with the row written over the last row of the sheet
ProfileUpdateWriteLastRow(p) ==
    /\ UNCHANGED <<form, client>>
    /\ pc[p] = "upd_write"
    /\ \E pin \in IF loc[p].pinGiven THEN {loc[p].row.pin}
                  ELSE UndefinedWritten(users[loc[p].index].pin) :
          users' = [users EXCEPT ![Len(users)] = [loc[p].row EXCEPT !.pin = pin]]
    /\ Respond(p, "update", 200, "", NoUser)
    /\ UNCHANGED <<visits, now>>

\* updateRow(SHEETS.USERS, userRowIndex, updatedRow) completes
ProfileUpdateWrite(p) ==
    /\ UNCHANGED <<form, client>>
    /\ pc[p] = "upd_write"
    /\ \E pin \in IF loc[p].pinGiven THEN {loc[p].row.pin}
                  ELSE UndefinedWritten(users[loc[p].index].pin) :
          users' = [users EXCEPT ![loc[p].index] = [loc[p].row EXCEPT !.pin = pin]]
    /\ Respond(p, "update", 200, "", NoUser)
    /\ UNCHANGED <<visits, now>>

(***************************************************************************)
(* POST /api/checkin and checkInUser                                       *)
(***************************************************************************)
\* the route's validation of the reason, on the string as it was sent
CheckInError(body) ==
    IF body.reason = <<>> THEN "User ID and reason are required"
    ELSE IF Len(body.reason) < 10 \/ Len(body.reason) > 500
    THEN "Reason must be between 10 and 500 characters"
    ELSE ""

\* hasRecent with the visit time compared to now instead of one minute ago
hasRecentNoWindow(visitRows, userId, t) ==
    \E i \in 1..Len(visitRows) :
        /\ visitRows[i].user_id = userId
        /\ getTime(visitRows[i].timestamp) > t

\* visitRows.some(row => row[1] === userId && getTime(row[2]) > oneMinuteAgo)
hasRecent(visitRows, userId, t) ==
    LET oneMinuteAgo == t - WindowMs
    IN  \E i \in 1..Len(visitRows) :
            /\ visitRows[i].user_id = userId
            /\ getTime(visitRows[i].timestamp) > oneMinuteAgo

\* visitRow without the disciplines of the user
visitRowNoSnapshot(visitId, userId, t, sanitizedReason, user) ==
    [id           |-> visitId,
     user_id      |-> userId,
     timestamp    |-> toISOString(t),
     reason       |-> sanitizedReason,
     disciplines  |-> <<>>]

\* visitRow of checkInUser
visitRow(visitId, userId, t, sanitizedReason, user) ==
    [id           |-> visitId,
     user_id      |-> userId,
     timestamp    |-> toISOString(t),
     reason       |-> sanitizedReason,
     disciplines  |-> join(user.disciplines, <<",">>)]

\* CheckInPOST that goes on with no user when no row has the id
CheckInPOSTAnyUser(p, body) ==
    /\ UNCHANGED <<form, client>>
    /\ pc[p] = "idle"
    /\ UNCHANGED <<users, visits, now>>
    /\ IF CheckInError(body) # ""
       THEN Respond(p, "checkin", 400, CheckInError(body), NoUser)
       ELSE LET i == FindIndex({k \in 1..Len(users) : users[k].id = body.userId})
            IN  /\ pc' = [pc EXCEPT ![p] = "chk_visits"]
                /\ loc' = [loc EXCEPT ![p] =
                             [op |-> "checkin", req |-> body,
                              sanitizedReason |-> sanitizeInput(body.reason),
                              user |-> IF i = 0 THEN NoUser
                                       ELSE parseUserRow(users[i])]]
                /\ UNCHANGED resp

\* the route validates; checkInUser sanitizes the reason and reads the Users
\* sheet; it is suspended at the read of the Visits sheet
CheckInPOST(p, body) ==
    /\ UNCHANGED <<form, client>>
    /\ pc[p] = "idle"
    /\ UNCHANGED <<users, visits, now>>
    /\ IF CheckInError(body) # ""
       THEN Respond(p, "checkin", 400, CheckInError(body), NoUser)
       ELSE LET i == FindIndex({k \in 1..Len(users) : users[k].id = body.userId})
            IN  IF i = 0
                THEN Respond(p, "checkin", 400, "User not found", NoUser)
                ELSE /\ pc' = [pc EXCEPT ![p] = "chk_visits"]
                     /\ loc' = [loc EXCEPT ![p] =
                                  [op |-> "checkin", req |-> body,
                                   sanitizedReason |-> sanitizeInput(body.reason),
                                   user |-> parseUserRow(users[i])]]
                     /\ UNCHANGED resp

\* the Visits sheet is read and the recent check-in test decides; the visit
\* row is built with the time of the test; suspended at the append
CheckInReadVisits(p) ==
    /\ UNCHANGED <<form, client>>
    /\ pc[p] = "chk_visits"
    /\ UNCHANGED <<users, visits, now>>
    /\ IF hasRecent(visits, loc[p].req.userId, now)
       THEN Respond(p, "checkin", 400,
                    "You have already checked in within the last minute", NoUser)
       ELSE /\ Len(visits) + PendingAppends("chk_append") < MaxVisits
            /\ pc' = [pc EXCEPT ![p] = "chk_append"]
            /\ loc' = [loc EXCEPT ![p] =
                         [op |-> "checkin", req |-> loc[p].req,
                          row |-> visitRow(uuidv4(visits, "chk_append"), loc[p].req.userId, now,
                                           loc[p].sanitizedReason, loc[p].user)]]
            /\ UNCHANGED resp

\* CheckInAppend with the recent check-in test made again at the append
CheckInAppendRechecked(p) ==
    /\ UNCHANGED <<form, client>>
    /\ pc[p] = "chk_append"
    /\ UNCHANGED <<users, now>>
    /\ IF hasRecent(visits, loc[p].req.userId, now)
       THEN /\ visits' = visits
            /\ Respond(p, "checkin", 400,
                       "You have already checked in within the last minute", NoUser)
       ELSE /\ visits' = Append(visits, loc[p].row)
            /\ Respond(p, "checkin", 200, "", NoUser)

\* CheckInAppend with the row written as the only row of the sheet
CheckInAppendOverwriting(p) ==
    /\ UNCHANGED <<form, client>>
    /\ pc[p] = "chk_append"
    /\ visits' = <<loc[p].row>>
    /\ Respond(p, "checkin", 200, "", NoUser)
    /\ UNCHANGED <<users, now>>

\* appendToSheet(SHEETS.VISITS, visitRow) completes
CheckInAppend(p) ==
    /\ UNCHANGED <<form, client>>
    /\ pc[p] = "chk_append"
    /\ visits' = Append(visits, loc[p].row)
    /\ Respond(p, "checkin", 200, "", NoUser)
    /\ UNCHANGED <<users, now>>

(***************************************************************************)
(* getAnalyticsData                                                        *)
(***************************************************************************)
\* parseVisitRow: the columns of a Visits row as a Visit
parseVisitRow(row) ==
    [id                   |-> row.id,
     user_id              |-> row.user_id,
     timestamp            |-> row.timestamp,
     reason_for_visit     |-> row.reason,
     disciplines_at_visit |-> IF row.disciplines # <<>> THEN split(row.disciplines)
                              ELSE <<>>]

\* The calendar of the server's Date, whose local time is taken to be UTC.
\* Day 0 is Thursday 1 January 1970; the first days of the months of 1970:
MonthStarts == <<0, 31, 59, 90, 120, 151, 181, 212, 243, 273, 304, 334>>

\* the first day of December 1969
December1969 == 0 - 31

\* Date.prototype.getDay of a day: 0 is Sunday
getDay(day) == (day + 4) % 7

\* new Date(year, month, 1) for the year and month of a day of 1970 or of
\* December 1969
FirstOfMonth(day) ==
    IF day < 0 THEN December1969
    ELSE LET m == CHOOSE k \in 1..Len(MonthStarts) :
                     /\ MonthStarts[k] <= day
                     /\ k < Len(MonthStarts) => day < MonthStarts[k + 1]
         IN  MonthStarts[m]

\* midnight of a day, as a Date
Midnight(day) == [date |-> day, time |-> 0]

\* a.getTime() >= b.getTime() for two Dates, told from their days and times of
\* day (the milliseconds of a Date weeks away from day 0 exceed 32 bits)
notBefore(a, b) == a.date > b.date \/ (a.date = b.date /\ a.time >= b.time)

\* todayStartOf as the time one day before t
todayStartRolling(t) == toISOString(t - DayMs)

\* now.setHours(0, 0, 0, 0): the day of t, at midnight
todayStartOf(t) == Midnight(t \div DayMs)

\* weekStartOf with the days of the week added: now.getDate() + now.getDay()
weekStartForward(t) ==
    LET day == t \div DayMs IN Midnight(day + getDay(day))

\* now.setDate(now.getDate() - now.getDay()) on the Date already set to
\* midnight: the Sunday at or before it, in whatever month that is
weekStartOf(t) ==
    LET day == t \div DayMs IN Midnight(day - getDay(day))

\* new Date(now.getFullYear(), now.getMonth(), 1) on the Date that the two
\* calls before have moved to the Sunday
monthStartOf(t) == Midnight(FirstOfMonth(weekStartOf(t).date))

\* the keys of disciplineCounts, in the order Object.entries gives them
DisciplineOrder ==
    <<Software, Art, Hardware, Design, Fashion, AIML, Other, PhotoVideo>>

\* .slice(0, 20)
RecentLimit == 20

Unknown == <<"U","n","k","n","o","w","n">>

\* how many times the forEach over the disciplines of the visits meets d
disciplineCount(allVisits, d) ==
    Cardinality(UNION {{<<i, k>> : k \in {n \in 1..Len(allVisits[i].disciplines_at_visit) :
                                             allVisits[i].disciplines_at_visit[n] = d}} :
                       i \in 1..Len(allVisits)})

\* getAnalyticsData over the rows it read, at time t
getAnalyticsData(visitRows, userRows, t) ==
    LET todayStart == todayStartOf(t)
        weekStart  == weekStartOf(t)
        monthStart == monthStartOf(t)
        allVisits  == [i \in 1..Len(visitRows) |-> parseVisitRow(visitRows[i])]
        visitTime(i) == allVisits[i].timestamp
        count(start) ==
            Cardinality({i \in 1..Len(allVisits) : notBefore(visitTime(i), start)})
        joined(visit) ==
            LET userRowIndex ==
                    FindIndex({k \in 1..Len(userRows) : userRows[k].id = visit.user_id})
            IN  [id |-> visit.id, user_id |-> visit.user_id,
                 timestamp |-> visit.timestamp,
                 reason_for_visit |-> visit.reason_for_visit,
                 disciplines_at_visit |-> visit.disciplines_at_visit,
                 users |-> IF userRowIndex # 0
                           THEN [name  |-> userRows[userRowIndex].name,
                                 email |-> userRows[userRowIndex].email]
                           ELSE [name |-> Unknown, email |-> Unknown]]
        kept == IF Len(allVisits) < RecentLimit THEN Len(allVisits) ELSE RecentLimit
    IN  [totalCheckIns |-> [today |-> count(todayStart),
                            week  |-> count(weekStart),
                            month |-> count(monthStart)],
         disciplineBreakdown |->
             [k \in 1..Len(DisciplineOrder) |->
                 [discipline |-> DisciplineOrder[k],
                  count |-> disciplineCount(allVisits, DisciplineOrder[k])]],
         recentActivity |-> [i \in 1..kept |-> joined(allVisits[i])]]

\* the response that carries the analytics
AnalyticsResponse(data) ==
    [op |-> "analytics", status |-> 200, error |-> "", user |-> NoUser, data |-> data]

\* the admin dashboard asks for the analytics: the two sheets are read, nothing
\* is written (no other handler runs between the two reads where this is used)
GetAnalytics(p) ==
    /\ UNCHANGED <<form, client>>
    /\ pc[p] = "idle"
    /\ resp' = AnalyticsResponse(getAnalyticsData(visits, users, now))
    /\ UNCHANGED <<users, visits, now, pc, loc>>

(***************************************************************************)
(* exportToCSV                                                             *)
(***************************************************************************)
DigitOrder == <<"0","1","2","3","4","5","6","7","8","9">>

RECURSIVE decimal(_)
\* the decimal digits of a natural number
decimal(n) ==
    IF n < 10 THEN <<DigitOrder[n + 1]>>
    ELSE decimal(n \div 10) \o <<DigitOrder[(n % 10) + 1]>>

RECURSIVE number(_)
\* the natural number that a string of decimal digits writes
number(digits) ==
    IF digits = <<>> THEN 0
    ELSE number(SubSeq(digits, 1, Len(digits) - 1)) * 10
           + (CHOOSE k \in 0..9 : DigitOrder[k + 1] = digits[Len(digits)])

\* Date.prototype.toLocaleString: the date and time to the second and no
\* further, written here as the count of seconds from day 0
toLocaleString(iso) ==
    LET sec == getTime(iso) \div 1000
    IN  IF sec < 0 THEN <<"-">> \o decimal(0 - sec) ELSE decimal(sec)

\* new Date(string).getTime() of such a string
localeTime(string) ==
    IF string[1] = "-" THEN (0 - number(Tail(string))) * 1000
    ELSE number(string) * 1000

\* String.prototype.includes
includes(s, term) ==
    \E i \in 0..(Len(s) - Len(term)) : SubSeq(s, i + 1, i + Len(term)) = term

\* does an element of the list equal d (Array.prototype.includes)
listIncludes(list, d) == \E k \in 1..Len(list) : list[k] = d

\* the visits that pass the three filters on the visit itself, in sheet order
filterVisits(visitRows, filters) ==
    LET Passes(row) ==
            LET v == parseVisitRow(row)
            IN  /\ filters.startDate # NoDate
                     => getTime(v.timestamp) >= filters.startDate
                /\ filters.endDate # NoDate
                     => getTime(v.timestamp) <= filters.endDate
                /\ filters.discipline # <<>>
                     => listIncludes(v.disciplines_at_visit, filters.discipline)
    IN  SelectSeq(visitRows, Passes)

\* is the visit row mapped to a row of the export (not to null)
exported(row, userRows, filters) ==
    LET userRowIndex == FindIndex({k \in 1..Len(userRows) : userRows[k].id = row.user_id})
    IN  /\ userRowIndex # 0
        /\ filters.searchTerm # <<>>
             => LET term == toLowerCase(filters.searchTerm)
                IN  \/ includes(toLowerCase(userRows[userRowIndex].name), term)
                    \/ includes(toLowerCase(userRows[userRowIndex].email), term)

\* the five cells of the export row of a visit row
exportRow(row, userRows) ==
    LET v == parseVisitRow(row)
        userRowIndex == FindIndex({k \in 1..Len(userRows) : userRows[k].id = row.user_id})
    IN  <<toLocaleString(v.timestamp),
          userRows[userRowIndex].name,
          userRows[userRowIndex].email,
          join(v.disciplines_at_visit, <<";", " ">>),
          v.reason_for_visit>>

\* rows.sort((a, b) => time(b[0]) - time(a[0])): descending, and stable
sortRows(rows) ==
    LET before(j, i) ==
            \/ localeTime(rows[j][1]) > localeTime(rows[i][1])
            \/ localeTime(rows[j][1]) = localeTime(rows[i][1]) /\ j < i
        rank(i) == 1 + Cardinality({j \in 1..Len(rows) : before(j, i)})
    IN  [k \in 1..Len(rows) |-> rows[CHOOSE i \in 1..Len(rows) : rank(i) = k]]

\* `"${String(cell).replace(/"/g, '""')}"`
quoteCell(cell) ==
    LET doubled(k) == IF cell[k] = "\"" THEN 2 ELSE 1
        RECURSIVE build(_)
        build(k) == IF k = 0 THEN <<>>
                    ELSE build(k - 1) \o (IF doubled(k) = 2 THEN <<"\"", "\"">>
                                          ELSE <<cell[k]>>)
    IN  <<"\"">> \o build(Len(cell)) \o <<"\"">>

CsvHeaders ==
    << <<"T","i","m","e","s","t","a","m","p">>, <<"N","a","m","e">>,
       <<"E","m","a","i","l">>, <<"D","i","s","c","i","p","l","i","n","e","s">>,
       <<"R","e","a","s","o","n">> >>

\* exportToCSV over the rows it read: the lines of the CSV text
exportToCSV(visitRows, userRows, filters) ==
    LET visits0 == filterVisits(visitRows, filters)
        Exported(row) == exported(row, userRows, filters)
        kept == SelectSeq(visits0, Exported)
        rows == sortRows([i \in 1..Len(kept) |-> exportRow(kept[i], userRows)])
        line(row) == join([k \in 1..Len(row) |-> quoteCell(row[k])], <<",">>)
    IN  <<join(CsvHeaders, <<",">>)>> \o [i \in 1..Len(rows) |-> line(rows[i])]

\* the response that carries the CSV text, with the filters it was asked with
ExportResponse(csv, filters) ==
    [op |-> "export", status |-> 200, error |-> "", user |-> NoUser,
     data |-> csv, filters |-> filters]

\* the admin asks for the export: the two sheets are read, nothing is written
ExportCSV(p, filters) ==
    /\ UNCHANGED <<form, client>>
    /\ pc[p] = "idle"
    /\ resp' = ExportResponse(exportToCSV(visits, users, filters), filters)
    /\ UNCHANGED <<users, visits, now, pc, loc>>

(***************************************************************************)
(* exportToCSV of lib/database.ts: the same export as a query on the        *)
(* visits table joined with the users table.  The rows of the two tables    *)
(* are the rows of the two sheets, the disciplines of a visit as an array.  *)
(***************************************************************************)
\* .ilike('%term%') for a term without the wildcards % and _
ilike(s, term) == includes(toLowerCase(s), toLowerCase(term))

\* .order('timestamp', { ascending: false }) on the indices of the rows kept
orderByTimestampDesc(visitRows, keptIndices) ==
    LET before(j, i) ==
            \/ getTime(visitRows[j].timestamp) > getTime(visitRows[i].timestamp)
            \/ getTime(visitRows[j].timestamp) = getTime(visitRows[i].timestamp) /\ j < i
        rank(i) == 1 + Cardinality({j \in keptIndices : before(j, i)})
    IN  [k \in 1..Cardinality(keptIndices) |->
            visitRows[CHOOSE i \in keptIndices : rank(i) = k]]

\* the query: users!inner, gte and lte on the timestamp, or() on the name and
\* the email of the user; filters.discipline is not read
exportQuery(visitRows, userRows, filters) ==
    LET userOf(i) == FindIndex({k \in 1..Len(userRows) :
                                   userRows[k].id = visitRows[i].user_id})
        selected(i) ==
            /\ userOf(i) # 0
            /\ filters.startDate # NoDate
                 => getTime(visitRows[i].timestamp) >= filters.startDate
            /\ filters.endDate # NoDate
                 => getTime(visitRows[i].timestamp) <= filters.endDate
            /\ filters.searchTerm # <<>>
                 => \/ ilike(userRows[userOf(i)].name, filters.searchTerm)
                    \/ ilike(userRows[userOf(i)].email, filters.searchTerm)
    IN  orderByTimestampDesc(visitRows, {i \in 1..Len(visitRows) : selected(i)})

\* exportToCSV of lib/database.ts over the two tables: the lines of the CSV text
exportToCSVDatabase(visitRows, userRows, filters) ==
    LET data == exportQuery(visitRows, userRows, filters)
        rows == [i \in 1..Len(data) |-> exportRow(data[i], userRows)]
        line(row) == join([k \in 1..Len(row) |-> quoteCell(row[k])], <<",">>)
    IN  <<join(CsvHeaders, <<",">>)>> \o [i \in 1..Len(rows) |-> line(rows[i])]

\* the admin dashboard asks for the export of lib/database.ts
ExportCSVDatabase(p, filters) ==
    /\ UNCHANGED <<form, client>>
    /\ pc[p] = "idle"
    /\ resp' = ExportResponse(exportToCSVDatabase(visits, users, filters), filters)
    /\ UNCHANGED <<users, visits, now, pc, loc>>

(***************************************************************************)
(* lib/validation.ts: the validators of the check-in form                  *)
(***************************************************************************)
Letters == {UpperAlpha[i] : i \in 1..26} \cup {LowerAlpha[i] : i \in 1..26}

\* EMAIL_REGEX.test(email):  /^[^\s@]+@[^\s@]+\.[^\s@]+$/
EmailRegexTest(email) ==
    LET ats == {i \in 1..Len(email) : email[i] = "@"}
    IN  /\ Cardinality(ats) = 1
        /\ \A i \in 1..Len(email) : email[i] # " "
        /\ \E a \in ats :
               /\ a > 1
               /\ \E d \in (a + 2)..(Len(email) - 1) : email[d] = "."

\* NAME_REGEX.test(name):  /^[a-zA-Z\s'-]+$/
NameRegexTest(name) ==
    /\ Len(name) > 0
    /\ \A i \in 1..Len(name) : name[i] \in Letters \cup {" ", "'", "-"}

\* the validators return the message of the error, "" for null
validateEmail(email) ==
    IF Len(trim(email)) = 0 THEN "Email is required"
    ELSE IF ~EmailRegexTest(email) THEN "Please enter a valid email address"
    ELSE ""

validateName(name) ==
    IF Len(trim(name)) = 0 THEN "Name is required"
    ELSE IF Len(trim(name)) < 2 THEN "Name must be at least 2 characters"
    ELSE IF Len(trim(name)) > 50 THEN "Name must be less than 50 characters"
    ELSE IF ~NameRegexTest(name)
    THEN "Name can only contain letters, spaces, hyphens, and apostrophes"
    ELSE ""

\* validDisciplines of validateDisciplines
validDisciplines == {Software, Hardware, Creative}

validateDisciplines(disciplines) ==
    IF Len(disciplines) = 0 THEN "Please select at least one discipline"
    ELSE IF \E k \in 1..Len(disciplines) : disciplines[k] \notin validDisciplines
    THEN "Invalid discipline selected"
    ELSE ""

validateReason(reason) ==
    IF Len(trim(reason)) = 0 THEN "Reason for visit is required"
    ELSE IF Len(trim(reason)) < 10 THEN "Reason must be at least 10 characters"
    ELSE IF Len(trim(reason)) > 500 THEN "Reason must be less than 500 characters"
    ELSE ""

IsError(message) == message # ""

\* validateCheckInForm: the messages of the errors, in the order of the fields
validateCheckInForm(data) ==
    SelectSeq(<<validateEmail(data.email), validateName(data.name),
                validateDisciplines(data.disciplines), validateReason(data.reason)>>,
              IsError)

(***************************************************************************)
(* lib/database.ts: checkInUser by email, on the users and visits tables   *)
(* of supabase/schema.sql.  In the specification of this data layer the    *)
(* rows of users and visits are rows of the two tables.                    *)
(***************************************************************************)
AlphaNumeric == Letters \cup DigitChars

\* users_email_format:  email ~* '^[A-Za-z0-9._%+-]+@[A-Za-z0-9.-]+\.[A-Za-z]{2,}$'
users_email_format(email) ==
    \E a \in 2..Len(email) : \E d \in (a + 2)..(Len(email) - 2) :
        /\ email[a] = "@"
        /\ email[d] = "."
        /\ \A i \in 1..(a - 1) : email[i] \in AlphaNumeric \cup {".", "_", "%", "+", "-"}
        /\ \A i \in (a + 1)..(d - 1) : email[i] \in AlphaNumeric \cup {".", "-"}
        /\ \A i \in (d + 1)..Len(email) : email[i] \in Letters

\* users_name_length
users_name_length(name) == Len(name) >= 2 /\ Len(name) <= 50

\* users_disciplines_not_empty and visits_disciplines_not_empty
disciplines_not_empty(disciplines) == Len(disciplines) > 0

\* visits_reason_length
visits_reason_length(reason) == Len(reason) >= 10 /\ Len(reason) <= 500

\* the constraints of the users table on a row, the UNIQUE of email apart
UsersConstraints(row) ==
    /\ users_email_format(row.email)
    /\ users_name_length(row.name)
    /\ disciplines_not_empty(row.disciplines)

\* the constraints of the visits table on a row
VisitsConstraints(row) ==
    /\ visits_reason_length(row.reason_for_visit)
    /\ disciplines_not_empty(row.disciplines_at_visit)

\* uuid_generate_v4(): rows are never deleted, so the number of rows plus one
\* is an id no row has
uuid_generate_v4(rows) == Len(rows) + 1

\* hasRecentCheckIn: .eq('user_id', userId).gte('timestamp', oneMinuteAgo)
hasRecentCheckIn(visitRows, userId, t) ==
    LET oneMinuteAgo == t - WindowMs
    IN  \E i \in 1..Len(visitRows) :
            /\ visitRows[i].user_id = userId
            /\ getTime(visitRows[i].timestamp) >= oneMinuteAgo

\* handleSubmit of CheckInForm validates the form and calls checkInUser,
\* which sanitizes and looks the user up by email; it is suspended at the
\* next query.  tables keeps the two tables as the request found them.
DatabaseCheckInSubmit(p, data) ==
    /\ UNCHANGED <<form, client>>
    /\ pc[p] = "idle"
    /\ UNCHANGED <<users, visits, now>>
    /\ LET validationErrors == validateCheckInForm(data)
           sanitizedEmail == sanitizeInput(toLowerCase(data.email))
           existing == FindIndex({k \in 1..Len(users) : users[k].email = sanitizedEmail})
           locals == [op |-> "checkin", data |-> data,
                      sanitizedEmail  |-> sanitizedEmail,
                      sanitizedName   |-> sanitizeInput(data.name),
                      sanitizedReason |-> sanitizeInput(data.reason),
                      userId |-> IF existing = 0 THEN NoSuchId ELSE users[existing].id,
                      tables |-> [users |-> users, visits |-> visits]]
       IN  IF Len(validationErrors) > 0
           THEN Respond(p, "checkin", 400, validationErrors[1], NoUser)
           ELSE /\ existing = 0 => Len(users) < MaxUsers /\ Len(visits) < MaxVisits
                /\ pc' = [pc EXCEPT ![p] = IF existing = 0 THEN "db_insert"
                                           ELSE "db_recent"]
                /\ loc' = [loc EXCEPT ![p] = locals]
                /\ UNCHANGED resp

\* the user exists: hasRecentCheckIn decides
DatabaseCheckInRecent(p) ==
    /\ UNCHANGED <<form, client>>
    /\ pc[p] = "db_recent"
    /\ UNCHANGED <<users, visits, now>>
    /\ IF hasRecentCheckIn(visits, loc[p].userId, now)
       THEN Respond(p, "checkin", 400,
                    "You have already checked in within the last minute", NoUser)
       ELSE /\ Len(visits) < MaxVisits
            /\ pc' = [pc EXCEPT ![p] = "db_update"]
            /\ UNCHANGED <<loc, resp>>

\* the user exists: its name, disciplines and updated_at are updated
DatabaseCheckInUpdate(p) ==
    /\ UNCHANGED <<form, client>>
    /\ pc[p] = "db_update"
    /\ UNCHANGED <<visits, now>>
    /\ LET k == FindIndex({i \in 1..Len(users) : users[i].id = loc[p].userId})
           row == [users[k] EXCEPT !.name = loc[p].sanitizedName,
                                   !.disciplines = loc[p].data.disciplines,
                                   !.updated_at = toISOString(now)]
       IN  IF ~UsersConstraints(row)
           THEN /\ users' = users
                /\ Respond(p, "checkin", 400, "Failed to update user information", NoUser)
           ELSE /\ users' = [users EXCEPT ![k] = row]
                /\ pc' = [pc EXCEPT ![p] = "db_visit"]
                /\ UNCHANGED <<loc, resp>>

\* no user has the email: one is inserted
DatabaseCheckInInsert(p) ==
    /\ UNCHANGED <<form, client>>
    /\ pc[p] = "db_insert"
    /\ UNCHANGED <<visits, now>>
    /\ LET row == [id |-> uuid_generate_v4(users),
                   email |-> loc[p].sanitizedEmail,
                   name |-> loc[p].sanitizedName,
                   disciplines |-> loc[p].data.disciplines,
                   created_at |-> toISOString(now),
                   updated_at |-> toISOString(now)]
       IN  IF \/ ~UsersConstraints(row)
              \/ \E k \in 1..Len(users) : users[k].email = row.email
           THEN /\ users' = users
                /\ Respond(p, "checkin", 400, "Failed to create user", NoUser)
           ELSE /\ users' = Append(users, row)
                /\ pc' = [pc EXCEPT ![p] = "db_visit"]
                /\ loc' = [loc EXCEPT ![p].userId = row.id]
                /\ UNCHANGED resp

\* the visit is inserted, if the constraints of the visits table admit it
DatabaseCheckInVisit(p) ==
    /\ UNCHANGED <<form, client>>
    /\ pc[p] = "db_visit"
    /\ UNCHANGED <<users, now>>
    /\ LET row == [id |-> uuid_generate_v4(visits),
                   user_id |-> loc[p].userId,
                   timestamp |-> toISOString(now),
                   reason_for_visit |-> loc[p].sanitizedReason,
                   disciplines_at_visit |-> loc[p].data.disciplines]
       IN  IF ~VisitsConstraints(row)
           THEN /\ visits' = visits
                /\ Respond(p, "checkin", 400, "Failed to record visit", NoUser)
           ELSE /\ visits' = Append(visits, row)
                /\ Respond(p, "checkin", 200, "", NoUser)

(***************************************************************************)
(* components/CheckInForm.tsx: the email field, its debounce timer, the    *)
(* count of lookups and its reset timer, and lookupUserByEmail of          *)
(* lib/database.ts.  Timers run at the time they were set for.             *)
(***************************************************************************)
\* lookupUserByEmail over the two tables: the user with the sanitized email
\* and the visit of greatest timestamp of that user
lookupUserByEmail(userRows, visitRows, email) ==
    LET sanitizedEmail == sanitizeInput(toLowerCase(email))
        k == FindIndex({i \in 1..Len(userRows) : userRows[i].email = sanitizedEmail})
        mine == {i \in 1..Len(visitRows) : k # 0 /\ visitRows[i].user_id = userRows[k].id}
        latest == {i \in mine : \A j \in mine :
                       getTime(visitRows[j].timestamp) <= getTime(visitRows[i].timestamp)}
    IN  IF k = 0 THEN [exists |-> FALSE, user |-> Null, lastVisit |-> Null]
        ELSE [exists |-> TRUE, user |-> userRows[k],
              lastVisit |-> IF latest = {} THEN Null
                            ELSE visitRows[CHOOSE i \in latest : TRUE]]

\* EmailChange with the cleanup of the effect and its clearTimeout left out
EmailChangeNoCancel(value) ==
    /\ value # form.email
    /\ LET timer == DebounceTimer(value, now + DebounceMs)
       IN  form' = [form EXCEPT !.email = value,
                                !.emailSince = now,
                                !.timers = form.timers \cup {timer},
                                !.lookupTimerRef = timer]
    /\ UNCHANGED <<users, visits, now, pc, loc, resp, client>>

\* the email field changes: setEmail(value); the cleanup of the effect and
\* the effect clear the timer of lookupTimerRef, and the effect sets a new one
EmailChange(value) ==
    /\ value # form.email
    /\ LET timer == DebounceTimer(value, now + DebounceMs)
       IN  form' = [form EXCEPT !.email = value,
                                !.emailSince = now,
                                !.timers = (form.timers \ {form.lookupTimerRef})
                                             \cup {timer},
                                !.lookupTimerRef = timer]
    /\ UNCHANGED <<users, visits, now, pc, loc, resp, client>>

\* a debounce timer runs: performEmailLookup(timer.value) up to its await
TimerFires(timer, maxIssued) ==
    /\ timer \in form.timers
    /\ timer.at <= now
    /\ LET emailValue == timer.value
           rest == form.timers \ {timer}
       IN  IF Len(emailValue) < 3
           THEN form' = [form EXCEPT !.timers = rest,
                                     !.isReturningUser = FALSE,
                                     !.returningUser = Null,
                                     !.lastVisit = Null]
           ELSE IF form.lookupCountRef >= LookupLimit
           THEN form' = [form EXCEPT !.timers = rest]
           ELSE /\ Len(form.issued) < maxIssued
                /\ form' = [form EXCEPT
                       !.timers = rest,
                       !.isLookingUp = TRUE,
                       !.lookupCountRef = form.lookupCountRef + 1,
                       !.lookupResetTimerRef =
                           IF form.lookupResetTimerRef = Null
                           THEN [at |-> now + LookupResetMs]
                           ELSE form.lookupResetTimerRef,
                       !.inFlight = form.inFlight
                                      \cup {[email |-> emailValue,
                                             n |-> Len(form.issued) + 1]},
                       !.issued = Append(form.issued,
                                         [email |-> emailValue, at |-> now])]
    /\ UNCHANGED <<users, visits, now, pc, loc, resp, client>>

\* the reset timer runs
ResetTimerFires ==
    /\ form.lookupResetTimerRef # Null
    /\ form.lookupResetTimerRef.at <= now
    /\ form' = [form EXCEPT !.lookupCountRef = 0, !.lookupResetTimerRef = Null]
    /\ UNCHANGED <<users, visits, now, pc, loc, resp, client>>

\* lookupUserByEmail of an awaited lookup resolves: the rest of
\* performEmailLookup, and its finally
LookupResolves(lookup) ==
    /\ lookup \in form.inFlight
    /\ LET result == lookupUserByEmail(users, visits, lookup.email)
           settled == [form EXCEPT !.inFlight = form.inFlight \ {lookup},
                                   !.isLookingUp = FALSE]
       IN  IF result.exists
           THEN form' = [settled EXCEPT
                             !.isReturningUser = TRUE,
                             !.returningUser = result.user,
                             !.lastVisit = result.lastVisit,
                             !.name = result.user.name,
                             !.selectedDisciplines = result.user.disciplines]
           ELSE form' = [settled EXCEPT
                             !.isReturningUser = FALSE,
                             !.returningUser = Null,
                             !.lastVisit = Null]
    /\ UNCHANGED <<users, visits, now, pc, loc, resp, client>>

\* d milliseconds pass in which no timer is due
Pass(d) ==
    /\ \A timer \in form.timers : now + d <= timer.at
    /\ form.lookupResetTimerRef # Null => now + d <= form.lookupResetTimerRef.at
    /\ now' = now + d
    /\ UNCHANGED <<users, visits, pc, loc, resp, form, client>>

(***************************************************************************)
(* lib/sheets/client.ts: getGoogleSheetsClient and the sheetsClient and    *)
(* auth it keeps between calls.  The two copies of the file differ in      *)
(* where the credentials are read; here they are read from the             *)
(* environment.  A call is suspended once, at await auth.authorize().      *)
(***************************************************************************)
\* the error that the catch block throws
ClientFailure ==
    [ok |-> FALSE, error |-> "Failed to initialize Google Sheets client"]

\* { sheets, spreadsheetId, auth }, from the cache or from the initialization
ClientResult(sheets, spreadsheetId, auth, cached) ==
    [ok |-> TRUE, sheets |-> sheets, spreadsheetId |-> spreadsheetId,
     auth |-> auth, cached |-> cached]

\* a call of getGoogleSheetsClient, up to its return from the cache, its
\* throw for want of credentials, or its await of auth.authorize()
GetClientCall(p, maxCalls) ==
    /\ p \notin client.awaiting
    /\ Len(client.results) + Cardinality(client.awaiting) < maxCalls
    /\ IF client.sheetsClient # Null /\ client.auth # Null
       THEN client' = [client EXCEPT !.results =
                Append(client.results,
                       ClientResult(client.sheetsClient,
                                    EnvOf(client.env, SpreadsheetIdKey),
                                    client.auth, TRUE))]
       ELSE IF ServiceAccountKey \notin DOMAIN client.env
       THEN client' = [client EXCEPT !.results = Append(client.results, ClientFailure)]
       ELSE client' = [client EXCEPT !.auth = [jwt |-> client.jwts + 1],
                                     !.jwts = client.jwts + 1,
                                     !.awaiting = client.awaiting \cup {p}]
    /\ UNCHANGED <<users, visits, now, pc, loc, resp, form>>

\* auth.authorize() of a suspended call resolves (authorized) or rejects: the
\* rest of the call
GetClientAuthorize(p, authorized) ==
    /\ p \in client.awaiting
    /\ LET resumed == [client EXCEPT !.awaiting = client.awaiting \ {p}]
           sheets == [version |-> "v4", auth |-> client.auth]
           spreadsheetId == EnvOf(client.env, SpreadsheetIdKey)
       IN  IF ~ authorized
           THEN client' = [resumed EXCEPT !.results = Append(client.results, ClientFailure)]
           ELSE IF SpreadsheetIdKey \notin DOMAIN client.env
           THEN client' = [resumed EXCEPT
                               !.sheetsClient = sheets,
                               !.results = Append(client.results, ClientFailure)]
           ELSE client' = [resumed EXCEPT
                               !.sheetsClient = sheets,
                               !.initialized = TRUE,
                               !.results = Append(client.results,
                                   ClientResult(sheets, spreadsheetId,
                                                client.auth, FALSE))]
    /\ UNCHANGED <<users, visits, now, pc, loc, resp, form>>

(***************************************************************************)
(* Specifications                                                          *)
(***************************************************************************)
\* no handler is suspended
AllIdle == \A q \in Procs : pc[q] = "idle"

\* Requests overlap freely: registrations and check-ins arrive at either
\* handler while the other is suspended at a sheet call.
Next ==
    \/ \E p \in Procs : \E body \in SameEmailBodies : RegisterPOST(p, body)
    \/ \E p \in Procs : \E body \in RacingCheckInBodies(UserIds) : CheckInPOST(p, body)
    \/ \E p \in Procs : RegisterAppend(p)
    \/ \E p \in Procs : CheckInReadVisits(p)
    \/ \E p \in Procs : CheckInAppend(p)

Spec == Init /\ [][Next]_vars

\* No overlapping requests: registrations and check-ins, one at a time, as
\* time passes.  A suspended handler reads the clock only in the step that
\* resumes it, and nothing else runs meanwhile, so time that passes during a
\* request is time that passed before it or after it.
CheckInNext ==
    \/ AllIdle /\ Tick
    \/ AllIdle /\ \E body \in TwoUserBodies : RegisterPOST(1, body)
    \/ AllIdle /\ \E body \in CheckInBodies(UserIds) : CheckInPOST(1, body)
    \/ RegisterAppend(1)
    \/ CheckInReadVisits(1)
    \/ CheckInAppend(1)

CheckInSpec == Init /\ [][CheckInNext]_vars

\* No overlapping requests: registrations, logins and profile updates through
\* either update route, one at a time.
AccountNext ==
    \/ AllIdle /\ \E body \in RegisterBodies : RegisterPOST(1, body)
    \/ AllIdle /\ \E body \in LoginBodies : LoginPOST(1, body)
    \/ AllIdle /\ \E body \in UpdateBodies(UserIds) : ProfileUpdatePOST(1, body)
    \/ AllIdle /\ \E body \in UpdateBodies(UserIds) : ProfileUpdateNoPinPOST(1, body)
    \/ RegisterAppend(1)
    \/ ProfileUpdateWrite(1)

AccountSpec == Init /\ [][AccountNext]_vars

\* Registrations and profile updates overlap freely.
UpdateNext ==
    \/ \E p \in Procs : \E body \in TwoUserBodies : RegisterPOST(p, body)
    \/ \E p \in Procs : \E body \in RacingUpdateBodies(UserIds) : ProfileUpdatePOST(p, body)
    \/ \E p \in Procs : RegisterAppend(p)
    \/ \E p \in Procs : ProfileUpdateWrite(p)

UpdateSpec == Init /\ [][UpdateNext]_vars

\* No overlapping requests and a clock that stands still: every operation on
\* the two sheets, one at a time.
LogNext ==
    \/ AllIdle /\ \E body \in TwoUserBodies : RegisterPOST(1, body)
    \/ AllIdle /\ \E body \in LoginBodies : LoginPOST(1, body)
    \/ AllIdle /\ \E body \in RacingUpdateBodies(UserIds) : ProfileUpdatePOST(1, body)
    \/ AllIdle /\ \E body \in CheckInBodies(UserIds) : CheckInPOST(1, body)
    \/ AllIdle /\ GetAnalytics(1)
    \/ AllIdle /\ \E filters \in ExportFilters : ExportCSV(1, filters)
    \/ RegisterAppend(1)
    \/ ProfileUpdateWrite(1)
    \/ CheckInReadVisits(1)
    \/ CheckInAppend(1)

LogSpec == Init /\ [][LogNext]_vars

\* The analytics as a function of the sheets and the clock.  The sheets are
\* those that two registrations and up to MaxLogged check-ins leave, the rows
\* built as registerUser and checkInUser build them; the clock is at or after
\* the last check-in.
MaxLogged == 3

Minute == 60 * 1000

\* Wednesday 31 December 1969, 23:59
Yesterday2359 == 0 - Minute

\* Thursday 1 January 1970, 00:01, 00:10 and 00:11
VisitTimes == {Yesterday2359, Minute, 10 * Minute, 11 * Minute}

\* the times the analytics are asked for: the visit times, Thursday 00:15 and
\* Sunday 4 January 1970, 00:15
AnalyticsClock == VisitTimes \cup {15 * Minute, 3 * DayMs + 15 * Minute}

AnalyticsUsers ==
    << newUserRow([email |-> EmailUpper, name |-> NameAl, workplace |-> WorkHQ,
                   pin |-> Pin1234, disciplines |-> <<Software, Art>>],
                  1, Yesterday2359),
       newUserRow([email |-> EmailOther, name |-> NameBo, workplace |-> WorkHQ,
                   pin |-> Pin9999, disciplines |-> <<Software, Software>>],
                  2, Yesterday2359) >>

\* the log of check-ins at the given times, each by the given owner
LogOf(times, owner) ==
    LET n == Cardinality(times)
        at == CHOOSE f \in [1..n -> times] : \A i, j \in 1..n : i < j => f[i] < f[j]
    IN  [i \in 1..n |->
            visitRow(i, owner[at[i]], at[i], sanitizeInput(ReasonMin),
                     parseUserRow(AnalyticsUsers[owner[at[i]]]))]

AnalyticsLogs ==
    UNION {{LogOf(times, owner) : owner \in [times -> {1, 2}]} :
             times \in {T \in SUBSET VisitTimes : Cardinality(T) <= MaxLogged}}

AnalyticsInit ==
    /\ users = AnalyticsUsers
    /\ visits \in AnalyticsLogs
    /\ now \in AnalyticsClock
    /\ \A i \in 1..Len(visits) : getTime(visits[i].timestamp) <= now
    /\ pc = [p \in Procs |-> "idle"]
    /\ loc = [p \in Procs |-> NoLoc]
    /\ resp = Response("none", 0, "", NoUser)
    /\ form = MountedForm
    /\ client = LoadedClient(FullEnv)

AnalyticsNext == GetAnalytics(1)

AnalyticsSpec == AnalyticsInit /\ [][AnalyticsNext]_vars

\* the valid registrations of two users: one with two disciplines of the
\* enumeration, one with a discipline outside it
BreakdownBodies ==
    {body \in RegisterBodies :
         body.disciplines \in {<<Software, Art>>, <<Creative>>}}

\* No overlapping requests and a clock that stands still: registrations,
\* profile updates and check-ins, and the dashboard asking for the analytics
\* in between.
BreakdownNext ==
    \/ AllIdle /\ \E body \in BreakdownBodies : RegisterPOST(1, body)
    \/ AllIdle /\ \E body \in RacingUpdateBodies(UserIds) : ProfileUpdatePOST(1, body)
    \/ AllIdle /\ \E body \in RacingCheckInBodies(UserIds) : CheckInPOST(1, body)
    \/ AllIdle /\ GetAnalytics(1)
    \/ RegisterAppend(1)
    \/ ProfileUpdateWrite(1)
    \/ CheckInReadVisits(1)
    \/ CheckInAppend(1)

BreakdownSpec == Init /\ [][BreakdownNext]_vars

\* the filters of the exports over the logs of AnalyticsLogs: from 00:01,
\* until 00:10, the discipline Art, a term in the name of one user and a term
\* in the email of the other
VisitFilters ==
    [startDate : {NoDate, Minute}, endDate : {NoDate, 10 * Minute},
     discipline : {<<>>, Art},
     searchTerm : {<<>>, <<"A","L">>, <<"B","@">>}]

\* The export as a function of the sheets and the filters, through either
\* data layer, over the sheets of AnalyticsInit.
ExportNext ==
    \/ \E filters \in VisitFilters : ExportCSV(1, filters)
    \/ \E filters \in VisitFilters : ExportCSVDatabase(1, filters)

ExportSpec == AnalyticsInit /\ [][ExportNext]_vars

EmailIoUpper == <<"A","@","x",".","i","o">>
EmailIoOther == <<"b","@","x",".","i","o">>

\* "<b>hello</b>": 12 characters, 8 after sanitizeInput
ReasonTagged == <<"<","b",">","h","e","l","l","o","<","/","b",">">>

\* what the check-in form is submitted with
FormData ==
    [email : {EmailIoUpper, EmailIoOther}, name : {NameAl},
     disciplines : {<<Software>>},
     reason : {ReasonMin, ReasonShort, ReasonTagged}]

\* No overlapping requests: check-ins through the form of lib/database.ts,
\* one at a time, as time passes.
DatabaseNext ==
    \/ AllIdle /\ Tick
    \/ AllIdle /\ \E data \in FormData : DatabaseCheckInSubmit(1, data)
    \/ DatabaseCheckInRecent(1)
    \/ DatabaseCheckInUpdate(1)
    \/ DatabaseCheckInInsert(1)
    \/ DatabaseCheckInVisit(1)

DatabaseSpec == Init /\ [][DatabaseNext]_vars

\* bodies of POST /api/lookup-by-pin
LookupBodies == [pin : {Pin1234, Pin9999, Pin5678, PinShort, <<>>}]

\* No overlapping requests: registrations, profile updates that set a new
\* PIN, logins and lookups by PIN, one at a time.
LookupNext ==
    \/ AllIdle /\ \E body \in RegisterBodies : RegisterPOST(1, body)
    \/ AllIdle /\ \E body \in RacingUpdateBodies(UserIds) : ProfileUpdatePOST(1, body)
    \/ AllIdle /\ \E body \in LoginBodies : LoginPOST(1, body)
    \/ AllIdle /\ \E body \in LookupBodies : LookupByPinPOST(1, body)
    \/ RegisterAppend(1)
    \/ ProfileUpdateWrite(1)

LookupSpec == Init /\ [][LookupNext]_vars

EmailIoLower == <<"a","@","x",".","i","o">>

\* what the email field is set to: cleared, the email of a user, an email of
\* no user
FormEmails == {<<>>, EmailIoLower, EmailIoOther}

\* the tables behind the form: one user, with one visit
FormUsers ==
    << [id |-> 1, email |-> EmailIoLower, name |-> NameAl,
        disciplines |-> <<Software>>,
        created_at |-> toISOString(0), updated_at |-> toISOString(0)] >>

FormVisits ==
    << [id |-> 1, user_id |-> 1, timestamp |-> toISOString(0),
        reason_for_visit |-> ReasonMin, disciplines_at_visit |-> <<Software>>] >>

FormInit ==
    /\ users = FormUsers
    /\ visits = FormVisits
    /\ now = 0
    /\ pc = [p \in Procs |-> "idle"]
    /\ loc = [p \in Procs |-> NoLoc]
    /\ resp = Response("none", 0, "", NoUser)
    /\ form = MountedForm
    /\ client = LoadedClient(FullEnv)

\* lookups a behaviour of the form issues
MaxIssued == 3

\* the time a behaviour of the form lasts, in steps of half the debounce delay
MaxFormSteps == 6

FormStep == DebounceMs \div 2

\* The form under edits of the email field at any time: the timers run when
\* due, and the lookups resolve in any order.  The behaviours end before the
\* reset timer of the first lookup is due.
FormNext ==
    \/ \E value \in FormEmails : EmailChange(value)
    \/ \E timer \in form.timers : TimerFires(timer, MaxIssued)
    \/ \E lookup \in form.inFlight : LookupResolves(lookup)
    \/ now + FormStep <= MaxFormSteps * FormStep /\ Pass(FormStep)

FormSpec == FormInit /\ [][FormNext]_vars

\* what the email field is set to when the lookups are counted
RateEmails == {EmailIoLower, EmailIoOther}

\* lookups a behaviour of RateSpec issues
MaxRateIssued == 12

\* the time a behaviour of RateSpec lasts, in debounce delays
MaxRateSteps == 132

\* a pause of the user, somewhat shorter than the delay of the reset timer
QuietMs == LookupResetMs - 2 * DebounceMs

\* The form under a user who edits the email once the lookup of the last
\* value is over, at once or after a pause: a debounce delay passes while a
\* timer is pending, a pause while none is, and the timers run when due.
RateNext ==
    \/ /\ form.timers = {}
       /\ form.inFlight = {}
       /\ \E value \in RateEmails : EmailChange(value)
    \/ \E timer \in form.timers : TimerFires(timer, MaxRateIssued)
    \/ ResetTimerFires
    \/ \E lookup \in form.inFlight : LookupResolves(lookup)
    \/ /\ form.inFlight = {}
       /\ LET d == IF form.timers # {} THEN DebounceMs ELSE QuietMs
          IN  /\ now + d <= MaxRateSteps * DebounceMs
              /\ Pass(d)

RateSpec == FormInit /\ [][RateNext]_vars

\* the environments the server may run under: each of the two variables set
\* or missing
ClientEnvs ==
    {[name \in names |-> FullEnv[name]] :
        names \in SUBSET {ServiceAccountKey, SpreadsheetIdKey}}

\* calls of getGoogleSheetsClient in a behaviour
MaxCalls == 5

ClientInit ==
    /\ users = <<>>
    /\ visits = <<>>
    /\ now = 0
    /\ pc = [p \in Procs |-> "idle"]
    /\ loc = [p \in Procs |-> NoLoc]
    /\ resp = Response("none", 0, "", NoUser)
    /\ form = MountedForm
    /\ \E env \in ClientEnvs : client = LoadedClient(env)

\* Calls of getGoogleSheetsClient by the handlers, which may overlap, with
\* authorizations that succeed or fail.
ClientNext ==
    \/ \E p \in Procs : GetClientCall(p, MaxCalls)
    \/ \E p \in Procs, authorized \in BOOLEAN : GetClientAuthorize(p, authorized)

ClientSpec == ClientInit /\ [][ClientNext]_vars

(***************************************************************************)
(* Properties                                                              *)
(***************************************************************************)
DuplicateError == "You have already checked in within the last minute"

\* the age at time t of visit row v
Age(v, t) == t - getTime(v.timestamp)

\* the step in which the handler of the only request in flight tests for a
\* recent check-in, and the step in which it appends
C1_Step ==
    LET u == loc[1].req.userId
        mine == {i \in 1..Len(visits) : visits[i].user_id = u}
    IN  /\ (pc[1] = "chk_visits" /\ pc'[1] # "chk_visits")
             => /\ (\E i \in mine : Age(visits[i], now) < WindowMs)
                      => /\ resp' = Response("checkin", 400, DuplicateError, NoUser)
                         /\ pc'[1] = "idle"
                         /\ visits' = visits
                /\ (\A i \in mine : Age(visits[i], now) > WindowMs)
                      => /\ pc'[1] = "chk_append"
                         /\ visits' = visits
        /\ (pc[1] = "chk_append" /\ pc'[1] # "chk_append")
             => /\ resp' = Response("checkin", 200, "", NoUser)
                /\ Len(visits') = Len(visits) + 1
                /\ SubSeq(visits', 1, Len(visits)) = visits
                /\ visits'[Len(visits')].user_id = u
                /\ visits'[Len(visits')].reason = sanitizeInput(loc[1].req.reason)

\* C1: with no overlapping requests, a check-in of an identity that has a
\* visit less than 60 s old fails with the duplicate check-in error and
\* appends nothing; once all its visits are more than 60 s old the check-in
\* succeeds and appends exactly one visit.
C1_DuplicateWindow == [][C1_Step]_vars

\* C1 witness: an identity checked in twice, the second time after the window
\* had passed, and its next check-in, right after, was refused as a duplicate
C1_Witness ==
    /\ Len(visits) = 2
    /\ visits[1].user_id = visits[2].user_id
    /\ getTime(visits[2].timestamp) - getTime(visits[1].timestamp) > WindowMs
    /\ now = getTime(visits[2].timestamp)
    /\ resp = Response("checkin", 400, DuplicateError, NoUser)

\* a handler that finds no visit of its identity within the window in the log
\* passes the test, whatever the other handler has decided to append; a handler
\* that passed the test appends its row and succeeds, whatever the log holds
C2_Step ==
    \A p \in Procs :
        LET u == loc[p].req.userId
        IN  /\ (/\ pc[p] = "chk_visits" /\ pc'[p] # "chk_visits"
                /\ \A i \in 1..Len(visits) :
                       visits[i].user_id = u => Age(visits[i], now) >= WindowMs)
                 => pc'[p] = "chk_append" /\ visits' = visits
            /\ (pc[p] = "chk_append" /\ pc'[p] # "chk_append")
                 => /\ visits' = Append(visits, loc[p].row)
                    /\ resp' = Response("checkin", 200, "", NoUser)

\* C2: two check-ins of one identity whose reads of the Visits sheet both come
\* before either append both pass the duplicate test and both succeed, so two
\* visits of one identity less than 60 s apart can be in the log.
C2_InterleavedCheckIns == [][C2_Step]_vars

\* C2 witness: two visits of one identity less than the window apart
C2_Witness ==
    \E i, j \in 1..Len(visits) :
        /\ i < j
        /\ visits[i].user_id = visits[j].user_id
        /\ getTime(visits[j].timestamp) - getTime(visits[i].timestamp) < WindowMs

\* C3: the reason stored in every visit has a trimmed length between 10 and
\* 500, so a request whose trimmed reason is shorter or longer appends no visit.
C3_ReasonLength ==
    \A i \in 1..Len(visits) :
        /\ Len(trim(visits[i].reason)) >= 10
        /\ Len(trim(visits[i].reason)) <= 500

\* C4: a registration whose email equals the email of a row up to letter case
\* is answered 'Email already registered' and leaves the Users sheet as it was.
C4_Step ==
    \A body \in RegisterBodies :
        (/\ RegisterPOST(1, body)
         /\ RegisterError(body) = ""
         /\ \E i \in 1..Len(users) :
                toLowerCase(users[i].email) = toLowerCase(body.email))
          => /\ resp' = Response("register", 400, "Email already registered", NoUser)
             /\ pc'[1] = "idle"
             /\ users' = users

C4_DuplicateEmailRejected == [][C4_Step]_vars

\* C5: whatever the interleaving of registrations, no two rows of the Users
\* sheet hold the same normalized email.
C5_UniqueEmails ==
    \A i, j \in 1..Len(users) : i # j => users[i].email # users[j].email

\* e1 and e2 differ only in letter case or surrounding whitespace
SameUpToCaseAndSpace(e1, e2) == trim(toLowerCase(e1)) = trim(toLowerCase(e2))

\* the emails a login is tried with
LoginEmails == {EmailUpper, EmailPadded, EmailAngle, EmailOther}

\* C6: once a registration has succeeded, authenticating with its PIN and any
\* email that differs from the registered one only in letter case or
\* surrounding whitespace succeeds and returns the trimmed, lowercased
\* registration email.
C6_Step ==
    \A p \in Procs :
        (pc[p] = "reg_append" /\ pc'[p] = "idle")
          => \A email2 \in LoginEmails :
                 SameUpToCaseAndSpace(email2, loc[p].req.email)
                   => LET result == authenticateUser(users', email2, loc[p].req.pin)
                      IN  /\ result.success
                          /\ result.user.email = trim(toLowerCase(loc[p].req.email))

C6_RegisterThenAuthenticate == [][C6_Step]_vars

NotFoundError  == "Account not found. Please register first."
NoPinError     == "Account exists but has no PIN. Please contact support."
IncorrectError == "Incorrect PIN. Please try again."

\* the answer to a well-formed login, told from the rows with the normalized
\* email: success exactly when one holds the PIN, else the one reason that applies
C7_Step ==
    \A body \in LoginBodies :
        (LoginPOST(1, body) /\ LoginError(body) = "")
          => LET email == trim(toLowerCase(body.email))
                 found == {i \in 1..Len(users) : users[i].email = email}
             IN  /\ resp'.status = 200
                      <=> \E i \in found : users[i].pin = body.pin
                 /\ resp'.status = 200
                      => \E i \in found : /\ resp'.user.id = users[i].id
                                          /\ resp'.user.email = email
                 /\ resp'.status # 200
                      => /\ resp'.status = 401
                         /\ resp'.user = NoUser
                         /\ resp'.error \in {NotFoundError, NoPinError, IncorrectError}
                 /\ resp'.error = NotFoundError <=> found = {}
                 /\ resp'.error = NoPinError
                      <=> \E i \in found : users[i].pin = <<>>
                 /\ resp'.error = IncorrectError
                      <=> \E i \in found : users[i].pin \notin {<<>>, body.pin}
                 /\ users' = users

\* C7: authenticate succeeds only when a row with the normalized email exists
\* and holds the PIN; otherwise it answers with exactly one of three reasons:
\* account not found, account has no PIN, incorrect PIN.
C7_AuthenticateOutcomes == [][C7_Step]_vars

\* C7 witness: a login with the email of a row and another PIN was refused
C7_Witness ==
    /\ resp = Response("login", 401, IncorrectError, NoUser)
    /\ \E i \in 1..Len(users) : users[i].email = trim(toLowerCase(EmailUpper))

\* the salt:hash form of a stored credential
IsSaltedHash(credential) ==
    \E k \in 2..(Len(credential) - 1) : credential[k] = ":"

\* C8: the credential stored in every row is a salted hash (salt:hash), never
\* the raw 4-digit PIN given to register or to the profile update.
C8_CredentialHashed ==
    \A i \in 1..Len(users) :
        IsSaltedHash(users[i].pin) /\ ~PinValid(users[i].pin)

\* C9: through the register and profile update routes the credential of every
\* row is a PIN of exactly 4 digits, never empty, and a profile update whose
\* request carries no such PIN writes nothing.
C9_Step ==
    /\ \A i \in 1..Len(users') : PinValid(users'[i].pin)
    /\ (pc[1] = "upd_write" /\ pc'[1] = "idle" /\ ~PinValid(loc[1].req.pin))
         => users' = users

C9_CredentialFourDigits == [][C9_Step]_vars

\* C10: a registration whose disciplines are empty or hold a value outside the
\* eight of the enumeration fails and creates no row, so the disciplines of
\* every row are non-empty and of the enumeration.
C10_Step ==
    /\ \A body \in RegisterBodies :
           (/\ RegisterPOST(1, body)
            /\ \/ body.disciplines = <<>>
               \/ \E k \in 1..Len(body.disciplines) :
                      body.disciplines[k] \notin Disciplines)
             => resp'.status = 400 /\ pc'[1] = "idle" /\ users' = users
    /\ \A i \in 1..Len(users') :
           LET disciplines == parseUserRow(users'[i]).disciplines
           IN  /\ disciplines # <<>>
               /\ \A k \in 1..Len(disciplines) : disciplines[k] \in Disciplines

C10_DisciplinesEnumerated == [][C10_Step]_vars

\* C11: after a profile update of an identity, if a new PIN was supplied the
\* credential is that PIN (authenticate succeeds with it and fails with the
\* old one); if the PIN was omitted the credential is unchanged and
\* authenticate with the previous PIN still succeeds.
C11_Step ==
    (pc[1] = "upd_write" /\ pc'[1] = "idle")
      => LET i == loc[1].index
             old == users[i].pin
             new == loc[1].req.pin
             email == users[i].email
             \* the stored email is one a login can be made with
             canLogin == sanitizeInput(toLowerCase(email)) = email
         IN  IF loc[1].pinGiven
             THEN /\ users'[i].pin = new
                  /\ canLogin => authenticateUser(users', email, new).success
                  /\ (canLogin /\ old # new)
                       => ~authenticateUser(users', email, old).success
             ELSE /\ users'[i].pin = old
                  /\ (canLogin /\ old # <<>>)
                       => authenticateUser(users', email, old).success

C12_Step ==
    \A p \in Procs :
        (pc[p] = "upd_write" /\ pc'[p] = "idle")
          => /\ Len(users') = Len(users)
             /\ \A k \in 1..Len(users) :
                    /\ users'[k].id = users[k].id
                    /\ users'[k].email = users[k].email
                    /\ users'[k].created_at = users[k].created_at
                    /\ users[k].id # loc[p].req.userId => users'[k] = users[k]

\* C12: a profile update never changes the id, email or creation timestamp of
\* a row and changes no row but the one of the given id, also when
\* registrations come between its read and its row write.
C12_UpdateFrame == [][C12_Step]_vars

\* C12 witness: a registration has appended a row since a profile update read
\* the sheet, and the update is about to write its row
C12_Witness ==
    \E p \in Procs :
        /\ pc[p] = "upd_write"
        /\ Len(users) > Len(loc[p].userRows)

\* a step leaves the Visits sheet as it is, or it is the append of a check-in
\* that answers 200 and adds one row after the rows there were
C13_Step ==
    \/ visits' = visits
    \/ /\ \E p \in Procs : pc[p] = "chk_append" /\ pc'[p] = "idle"
       /\ resp' = Response("checkin", 200, "", NoUser)
       /\ Len(visits') = Len(visits) + 1
       /\ SubSeq(visits', 1, Len(visits)) = visits

\* C13: the Visits sheet is append-only: no operation removes or changes a
\* row, and only a successful check-in adds rows, exactly one per call.
C13_AppendOnly ==
    [][/\ C13_Step
       /\ (resp' # resp /\ resp'.op = "checkin" /\ resp'.status = 200)
            => Len(visits') = Len(visits) + 1]_vars

\* C13 witness: after two check-ins the export was asked for and the two rows
\* are in the sheet
C13_Witness ==
    /\ Len(visits) = 2
    /\ resp.op = "export"
    /\ Len(resp.data) = 3

\* the handler of a check-in keeps the user as parsed from the row it read,
\* builds its row with the disciplines of that user and appends it; no step changes
\* the disciplines of a row that is in the Visits sheet
C14_Step ==
    /\ \A p \in Procs :
           /\ (pc[p] = "idle" /\ pc'[p] = "chk_visits")
                => \E k \in 1..Len(users) :
                       /\ users[k].id = loc'[p].req.userId
                       /\ join(loc'[p].user.disciplines, <<",">>) = users[k].disciplines
           /\ (pc[p] = "chk_visits" /\ pc'[p] = "chk_append")
                => /\ loc'[p].row.disciplines
                        = join(loc[p].user.disciplines, <<",">>)
                   /\ parseVisitRow(loc'[p].row).disciplines_at_visit
                        = loc[p].user.disciplines
           /\ (pc[p] = "chk_append" /\ pc'[p] = "idle")
                => visits'[Len(visits')].disciplines = loc[p].row.disciplines
    /\ \A i \in 1..Len(visits) :
           /\ i <= Len(visits')
           /\ visits'[i].disciplines = visits[i].disciplines

\* C14: the disciplines-at-visit of a visit written by a check-in are the
\* disciplines stored for the identity when the check-in read it, and a later
\* profile update that changes the identity's disciplines leaves those of
\* every existing visit unchanged.
C14_DisciplinesSnapshot == [][C14_Step]_vars

\* C14 witness: a profile update changed the disciplines of an identity that
\* has a visit, and the visit still holds the disciplines it was written with
C14_Witness ==
    /\ resp = Response("update", 200, "", NoUser)
    /\ \E i \in 1..Len(visits) : \E k \in 1..Len(users) :
           /\ users[k].id = visits[i].user_id
           /\ users[k].disciplines = Hardware
           /\ visits[i].disciplines # users[k].disciplines
           /\ visits[i].disciplines # <<>>

\* C15: a check-in with an id that no row of the Users sheet has is answered
\* 'User not found' and appends nothing; so the owner id of every visit is
\* the id of a row of the Users sheet.
C15_Step ==
    /\ \A body \in CheckInBodies(UserIds) :
           (/\ CheckInPOST(1, body)
            /\ CheckInError(body) = ""
            /\ \A k \in 1..Len(users) : users[k].id # body.userId)
             => /\ resp' = Response("checkin", 400, "User not found", NoUser)
                /\ pc'[1] = "idle"
                /\ visits' = visits
    /\ \A i \in 1..Len(visits') :
           \E k \in 1..Len(users') : users'[k].id = visits'[i].user_id

C15_OwnerExists == [][C15_Step]_vars

\* C15 witness: a check-in with an unknown id was refused while the sheet
\* holds a visit of a known one
C15_Witness ==
    /\ resp = Response("checkin", 400, "User not found", NoUser)
    /\ Len(visits) > 0

\* C16: after every successful check-in of an identity its last-updated
\* timestamp is the time of that check-in, so it is never older than the
\* timestamp of its newest visit.
C16_UpdatedAtRefreshed ==
    \A i \in 1..Len(visits) : \A k \in 1..Len(users) :
        users[k].id = visits[i].user_id
          => getTime(users[k].updated_at) >= getTime(visits[i].timestamp)

\* the visits of the sheet made on the given day or later
VisitsSince(day) ==
    {i \in 1..Len(visits) : visits[i].timestamp.date >= day}

\* C17: whatever the current date and weekday, the month count of the
\* analytics is the number of visits at or after 00:00 of the first day of the
\* calendar month of the current date.
C17_MonthCount ==
    resp.op = "analytics"
      => resp.data.totalCheckIns.month
           = Cardinality(VisitsSince(FirstOfMonth(now \div DayMs)))

\* three visits: yesterday 23:59, today 00:01 and five minutes ago
ThreeVisitScenario ==
    /\ now \div DayMs = 0
    /\ Len(visits) = 3
    /\ getTime(visits[1].timestamp) = Yesterday2359
    /\ getTime(visits[2].timestamp) = Minute
    /\ getTime(visits[3].timestamp) = now - 5 * Minute

\* C18: the today count of the analytics is the number of visits at or after
\* midnight of the current day; with visits at yesterday 23:59, today 00:01
\* and five minutes ago it is 2.
C18_TodayCount ==
    resp.op = "analytics"
      => /\ resp.data.totalCheckIns.today
              = Cardinality(VisitsSince(now \div DayMs))
         /\ ThreeVisitScenario => resp.data.totalCheckIns.today = 2

\* C18 witness: the analytics were computed in the three-visit scenario
C18_Witness ==
    /\ resp.op = "analytics"
    /\ ThreeVisitScenario

\* C19: the recent activity of the analytics has at most 20 entries, which are
\* the 20 visits of greatest timestamp (all visits when there are fewer), in
\* descending order of timestamp.
C19_RecentActivity ==
    resp.op = "analytics"
      => LET recent == resp.data.recentActivity
             ids == {recent[k].id : k \in 1..Len(recent)}
         IN  /\ Len(recent) <= RecentLimit
             /\ Len(recent) = Cardinality(ids)
             /\ Len(visits) <= RecentLimit
                  => ids = {visits[i].id : i \in 1..Len(visits)}
             /\ \A i \in 1..Len(visits) :
                    visits[i].id \notin ids
                      => \A k \in 1..Len(recent) :
                             getTime(recent[k].timestamp) >= getTime(visits[i].timestamp)
             /\ \A k \in 1..(Len(recent) - 1) :
                    getTime(recent[k].timestamp) >= getTime(recent[k + 1].timestamp)

\* C20: for every discipline of the enumeration the analytics report a count
\* equal to the number of visits whose disciplines-at-visit contain it.
C20_DisciplineCounts ==
    resp.op = "analytics"
      => LET breakdown == resp.data.disciplineBreakdown
         IN  /\ {breakdown[k].discipline : k \in 1..Len(breakdown)} = Disciplines
             /\ \A k \in 1..Len(breakdown) :
                    breakdown[k].count
                      = Cardinality({i \in 1..Len(visits) :
                            listIncludes(parseVisitRow(visits[i]).disciplines_at_visit,
                                         breakdown[k].discipline)})


RECURSIVE SumCounts(_)
\* the sum of the counts of a discipline breakdown
SumCounts(breakdown) ==
    IF breakdown = <<>> THEN 0
    ELSE breakdown[1].count + SumCounts(Tail(breakdown))

\* C21: over every Visits sheet that registrations, profile updates and
\* check-ins produce, the counts of the discipline breakdown are never
\* negative, never decrease from one step to the next, and sum to at least
\* the number of visits.
C21_Step ==
    LET before == getAnalyticsData(visits, users, now).disciplineBreakdown
        after  == getAnalyticsData(visits', users', now').disciplineBreakdown
    IN  /\ \A k \in 1..Len(after) :
               after[k].count >= 0 /\ after[k].count >= before[k].count
        /\ (resp'.op = "analytics" /\ resp' # resp)
             => SumCounts(resp'.data.disciplineBreakdown) >= Len(visits')

C21_BreakdownMonotone == [][C21_Step]_vars


\* does visit row i of the sheet satisfy every filter that was supplied
Satisfies(i, filters) ==
    LET visit == parseVisitRow(visits[i])
        owner == CHOOSE k \in 1..Len(users) : users[k].id = visit.user_id
        lower == toLowerCase(filters.searchTerm)
    IN  /\ filters.startDate # NoDate => getTime(visit.timestamp) >= filters.startDate
        /\ filters.endDate # NoDate => getTime(visit.timestamp) <= filters.endDate
        /\ filters.discipline # <<>>
             => \E n \in 1..Len(visit.disciplines_at_visit) :
                    visit.disciplines_at_visit[n] = filters.discipline
        /\ filters.searchTerm # <<>>
             => \/ includes(toLowerCase(users[owner].name), lower)
                \/ includes(toLowerCase(users[owner].email), lower)

\* the data lines of the CSV text are one line per satisfying visit, and no other
ExportsExactly(csv, filters) ==
    LET satisfying == {i \in 1..Len(visits) : Satisfies(i, filters)}
    IN  /\ Len(csv) = 1 + Cardinality(satisfying)
        /\ \A i \in satisfying :
               \E n \in 2..Len(csv) :
                   LET cell == quoteCell(toLocaleString(visits[i].timestamp))
                   IN  SubSeq(csv[n], 1, Len(cell)) = cell

\* C22: the export has a data row for a visit exactly when the visit
\* satisfies every supplied filter together (timestamp at or after the start
\* date, at or before the end date, disciplines-at-visit containing the
\* discipline, name or email of the owner containing the search term in any
\* letter case); a filter left out restricts nothing.
C22_ExportFilters ==
    resp.op = "export" => ExportsExactly(resp.data, resp.filters)


\* the step ends a check-in or a registration of handler 1 with a rejection
RejectedStep ==
    /\ pc'[1] = "idle"
    /\ resp'.op \in {"checkin", "register"}
    /\ resp'.status = 400
    /\ resp' # resp \/ pc[1] # "idle"

\* C23: a check-in or a registration that is rejected with a validation error
\* or a conflict error (duplicate email, duplicate check-in within the window,
\* reason length out of range) has written nothing: the identity store and
\* the visit log are after the request what they were before it.
C23_Step ==
    /\ RejectedStep
         => /\ users' = users
            /\ visits' = visits
            /\ "tables" \in DOMAIN loc[1]
                 => /\ users' = loc[1].tables.users
                    /\ visits' = loc[1].tables.visits
    /\ pc'[1] \in {"reg_append", "chk_visits", "chk_append"}
         => users' = users /\ visits' = visits

C23_RejectedWritesNothing == [][C23_Step]_vars


\* C24: on the same visit log, for the same identity and at the same time,
\* the check-in by email of lib/database.ts (hasRecentCheckIn) refuses a
\* check-in as a duplicate exactly when the check-in by id of the sheet layer
\* (hasRecent of checkInUser) does, whatever the age of the identity's latest
\* visit, 60 seconds exactly included.
C24_Step ==
    (pc[1] = "db_recent" /\ pc'[1] # "db_recent")
      => ((resp' = Response("checkin", 400, DuplicateError, NoUser) /\ pc'[1] = "idle")
            <=> hasRecent(visits, loc[1].userId, now))

C24_SameDuplicateDecision == [][C24_Step]_vars


\* the fields of the user in the body of a response that are strings
PublicStrings == {"email", "name"}

\* C25: whatever the stored identities and the request, the body of a
\* response of POST lookup-by-pin or POST login has no field that holds the
\* credential of an identity: the user it carries has only public fields,
\* and none of them holds a stored PIN.
C25_NoCredentialInResponse ==
    resp.op \in {"login", "lookup"}
      => /\ DOMAIN resp \subseteq {"op", "status", "error", "exists", "user"}
         /\ "user" \in DOMAIN resp
              => /\ DOMAIN resp.user \subseteq {"id", "email", "name", "disciplines"}
                 /\ \A f \in PublicStrings : \A k \in 1..Len(users) :
                        users[k].pin # <<>> => resp.user[f] # users[k].pin

\* C25 witness: a lookup by PIN was answered with the user whose row holds
\* that PIN, while another row holds another PIN
C25_Witness ==
    /\ resp.op = "lookup"
    /\ resp.status = 200
    /\ "user" \in DOMAIN resp
    /\ \E k, j \in 1..Len(users) :
           /\ users[k].email = resp.user.email
           /\ PinValid(users[k].pin)
           /\ PinValid(users[j].pin)
           /\ users[j].pin # users[k].pin

\* a lookup is issued in this step
LookupIssued == Len(form'.issued) = Len(form.issued) + 1

C27_Step ==
    /\ form'.email # form.email =>
           form'.timers = {DebounceTimer(form'.email, now + DebounceMs)}
    /\ LookupIssued =>
           /\ form'.issued[Len(form'.issued)].email = form.email
           /\ now - form.emailSince >= DebounceMs

\* C27: the form has at most one debounce timer pending; an edit of the email
\* leaves only the timer of the new value pending; and a lookup is issued
\* only for the value the field holds, and only when that value was set at
\* least 500 ms before.
C27_OneDebounceTimer ==
    [][Cardinality(form.timers) <= 1 /\ Cardinality(form'.timers) <= 1 /\ C27_Step]_vars

\* an edit 250 ms after mounting cancelled the timer of the mount, and the
\* lookup of the value typed was issued 500 ms after the edit
C27_Witness ==
    /\ Len(form.issued) = 1
    /\ form.issued[1].at = FormStep + DebounceMs

\* the returning-user state of the form is the result of the lookup of email
ShowsResultFor(email) ==
    LET result == lookupUserByEmail(users, visits, email)
    IN  IF result.exists
        THEN /\ form.isReturningUser
             /\ form.returningUser = result.user
             /\ form.lastVisit = result.lastVisit
             /\ form.name = result.user.name
             /\ form.selectedDisciplines = result.user.disciplines
        ELSE /\ ~ form.isReturningUser
             /\ form.returningUser = Null
             /\ form.lastVisit = Null

\* every lookup issued has resolved, no debounce timer is pending, and the
\* state of the form is the result of the lookup of the email of the field
C29_FinalState ==
    (form.inFlight = {} /\ form.timers = {} /\ Len(form.email) >= 3)
        => ShowsResultFor(form.email)

\* C29: once every lookup issued has resolved and no debounce timer is
\* pending, the returning-user state of the form (isReturningUser, the user,
\* the last visit, the pre-filled name and disciplines) is the result of the
\* lookup of the email the field holds, in whatever order the lookups
\* resolved; and while a lookup is awaited isLookingUp holds, which disables
\* the submit button.
C29_CurrentEmailWins ==
    /\ C29_FinalState
    /\ form.inFlight # {} => form.isLookingUp

\* C26: of the lookups the form has issued, any eleven in a row span at
\* least 60 seconds, that is, no interval of 60 seconds holds more than 10.
C26_RollingWindow ==
    \A i \in 1..(Len(form.issued) - LookupLimit) :
        form.issued[i + LookupLimit].at - form.issued[i].at >= LookupResetMs

\* C28: in the analytics the count of today is at most the count of the week
\* and at most the count of the month.
C28_TodayWithinWeekAndMonth ==
    resp.op = "analytics"
      => /\ resp.data.totalCheckIns.today <= resp.data.totalCheckIns.week
         /\ resp.data.totalCheckIns.today <= resp.data.totalCheckIns.month

\* C28 witness: analytics that count a visit of today, and more visits in the
\* week than today
C28_Witness ==
    /\ resp.op = "analytics"
    /\ resp.data.totalCheckIns.today >= 1
    /\ resp.data.totalCheckIns.today < resp.data.totalCheckIns.week

\* C30: no call of getGoogleSheetsClient returns an undefined spreadsheetId;
\* when GOOGLE_SPREADSHEET_ID is missing every call fails; and a call returns
\* the cached client only after a call has returned a client it created.
C30_NoUnsetSpreadsheetId ==
    \A i \in 1..Len(client.results) :
        LET result == client.results[i]
        IN  /\ SpreadsheetIdKey \notin DOMAIN client.env => ~ result.ok
            /\ result.ok => /\ result.spreadsheetId # Undefined
                            /\ result.cached => client.initialized

====
